---- MODULE Spec2Model ----
(***************************************************************************)
(* Model of the Unity MCP bridge: LowLevelTcpClient (framed transport and  *)
(* request correlation), UnityTcpClient (the client the supervisor talks   *)
(* to) and UnityConnectionManager (connection supervisor).                 *)
(*                                                                         *)
(* The program runs on one asyncio event loop.  Code between two awaits is *)
(* atomic; the variable `running` holds the task that is executing         *)
(* synchronous code (0 when control is in the event loop).  An action that *)
(* resumes a suspended task requires running = 0.                          *)
(***************************************************************************)
EXTENDS Integers, Sequences, FiniteSets, TLC

(* ------------------------------ bounds --------------------------------- *)
MaxSockets == 2
MaxAutos == 2
\* Listeners registered for one kind of transition.
MaxListeners == 2
ListenerKinds == {"quiet", "failing"}

(* ------------------------- program constants --------------------------- *)
START_MARKER == 2
END_MARKER == 3
MAX_ATTEMPTS == 5
MAX_MESSAGE_LENGTH == 10485760

(* ------------------------------ task ids ------------------------------- *)
Users == 1..3
MaxRequests == 4 * Cardinality(Users)
LoopIds == 11..(10 + MaxSockets)
AutoIds == 21..(20 + MaxAutos)
Tasks == Users \cup LoopIds \cup AutoIds

\* DynamicToolManager instances: one per wrapper shape the same schema is
\* delivered in, and one that is given any payload.
Shapes == {"direct", "result", "content", "result_content"}
Managers == Shapes \cup {"any"}

\* DynamicToolManager.__init__, with the FastMCP server it publishes to.
NewManager ==
  [registered_tools |-> <<>>, registered_resources |-> <<>>,
   tools |-> <<>>, resources |-> <<>>,
   schema_result |-> [kind |-> "absent"], ret |-> "none"]

\* ResourceContext before any context is set: no ctx attribute (0 is None),
\* no key in _task_contexts (-1), every task outside its block.
NoContexts ==
  [thread_ctx |-> 0, task_contexts |-> [t \in Users |-> 0 - 1],
   at |-> [t \in Users |-> "out"], prev_ctx |-> [t \in Users |-> 0]]

\* No tool or resource has been invoked yet.
NoInvocation ==
  [op |-> "none", name |-> "none", args |-> <<>>, params |-> <<>>,
   tr |-> [connected |-> TRUE, reconnects |-> TRUE, reply |-> [kind |-> "none"]],
   sent |-> <<>>, reconnects |-> 0,
   got |-> [exc |-> "none", val |-> [kind |-> "none"], msg |-> <<>>],
   out |-> [exc |-> "none", val |-> [kind |-> "none"], msg |-> <<>>]]

\* No reception under way: nothing on the wire, an empty buffer, no
\* _receive_frame call.
NoRx ==
  [sent |-> <<>>, wire |-> <<>>, buffer |-> <<>>, at |-> "idle",
   message_length |-> 0, message_bytes |-> <<>>, delivered |-> <<>>,
   ended |-> FALSE]

VARIABLES
  connected,          \* LowLevelTcpClient.connected
  writer,             \* LowLevelTcpClient.reader / .writer: socket id, 0 = None,
                      \* -id = the stream whose close waiter holds an exception
  receive_task,       \* LowLevelTcpClient.receive_task: loop task id, 0 = None
  pending_requests,   \* keys of LowLevelTcpClient.pending_requests
  fut,                \* request id -> state of its asyncio.Future
  socks,              \* sockets opened by open_connection and not closed locally
  nsock,              \* number of sockets opened so far
  faults,             \* failed connection attempts the peer may still cause
  paused,             \* the peer is not reading: drain() does not return
  nextId,             \* next fresh request id (uuid4 never repeats)
  client_connected,   \* UnityTcpClient.connected
  is_reconnecting,    \* UnityConnectionManager.is_reconnecting
  reconnect_task,     \* UnityConnectionManager.reconnect_task: task id, 0 = None
  auto_reconnect,     \* UnityConnectionManager.auto_reconnect
  reconnect_attempts, \* UnityConnectionManager.reconnect_attempts
  pc,                 \* task -> position in its coroutine
  stack,              \* task -> sequence of calling frames
  ret,                \* task -> value or exception being returned
  loc,                \* task -> local variables of the innermost frames
  cancel_req,         \* task -> a cancel() was requested and not yet delivered
  running,            \* task executing synchronous code, 0 = event loop
  role,               \* user task -> the calls (operation, command) it may make
  listeners,          \* the registered listeners of a transition, in list order
  mgr,                \* DynamicToolManager instance -> its registries, the
                      \* tools and resources it published, its last call
  rctx,               \* ResourceContext: _thread_local.ctx, _task_contexts
                      \* and each task's position in its with_context block
  invocation,         \* the last invocation of a tool or resource: its
                      \* arguments, the requests it sent, the reconnects it
                      \* made and what it returned or raised
  peer_errors,        \* error texts the peer may answer with
  budget,             \* user task -> operations it may still start
  hist,               \* observations used by the properties
  f_text,             \* framing: the message given to _send_frame
  f_wire,             \* framing: the bytes written to the stream
  f_msg,              \* framing: what _receive_frame returned
  f_pc,               \* framing: position of the round trip
  rx                  \* reception: the bytes on their way, the reader's buffer,
                      \* the position and locals of _receive_frame, and the
                      \* messages handed to the read loop

vars == <<connected, writer, receive_task, pending_requests, fut, socks, nsock,
          faults, paused, nextId, client_connected, is_reconnecting, reconnect_task,
          auto_reconnect, reconnect_attempts, pc, stack, ret, loc, cancel_req,
          running, role, listeners, peer_errors, budget, hist, f_text, f_wire, f_msg, f_pc,
          mgr, rctx, invocation, rx>>

frameVars == <<f_text, f_wire, f_msg, f_pc, rx>>

transportVars == <<connected, writer, receive_task, pending_requests, fut,
                   socks, nsock, faults, paused, nextId>>
managerVars == <<is_reconnecting, reconnect_task, auto_reconnect,
                 reconnect_attempts>>

(* ------------------------------ messages ------------------------------- *)
\* Exception texts are sequences of words; `"x" in str(e)` is a search for a
\* contiguous run of words.
Contains(msg, pat) ==
  \E i \in 1..(Len(msg) - Len(pat) + 1) : SubSeq(msg, i, i + Len(pat) - 1) = pat

NotConnectedMsg == <<"Not", "connected", "to", "Unity", "TCP", "server">>
DisconnectedMsg == <<"Disconnected", "from", "server">>
ConnectionLostMsg == <<"Connection", "lost">>
TimeoutMsg(command) ==
  <<"Timeout", "waiting", "for", "response", "to", "command", command>>
CommandErrorMsg(command, text) ==
  <<"Error", "executing", "command", command>> \o text
ReconnectFailedMsg == <<"Not", "connected", "to", "Unity", "and",
                        "reconnection", "failed">>
OperationFailedMsg(text) ==
  <<"Operation", "failed", "and", "reconnection", "failed">> \o text

Commands == {"get_schema", "execute_code"}

\* The calls of operation o a caller may make; only send_command and
\* execute_with_reconnect take a command.
Calls(o, commands) ==
  IF o \in {"send", "ewr"} THEN [op : {o}, cmd : commands]
                            ELSE {[op |-> o, cmd |-> "none"]}
PeerErrorTexts == {<<"boom">>, <<"Not", "connected", "to", "editor">>}

Value(v) == [exc |-> FALSE, val |-> v, msg |-> <<>>]
Error(m) == [exc |-> TRUE, val |-> "none", msg |-> m]
Cancelled == [exc |-> TRUE, val |-> "cancelled", msg |-> <<"CancelledError">>]
NoRet == Value("none")

\* Response envelopes the peer may send: {id, status, result?, error?}.
\* The peer can only name ids it has seen (0 stands for any other id).
Envelopes ==
  [id : 0..(nextId - 1), status : {"success"}, result : {"r"}, error : {<<>>}]
  \cup [id : 0..(nextId - 1), status : {"error"}, result : {"none"},
        error : peer_errors]

NoEnvelope == [id |-> 0, status |-> "none", result |-> "none", error |-> <<>>]

\* What one call of _receive_frame hands to the read loop, or the 1-second
\* poll timeout of the loop.
Frames == {"timeout", "None", "PONG", "PING", "notjson", "notdict"}

NoFuture == [state |-> "none", val |-> NoEnvelope]

NoLoc == [op |-> "none", req |-> 0, cmd |-> "none", resp |-> NoEnvelope,
          attempts |-> 0, attempt |-> 0, delays |-> <<>>, tries |-> 0,
          opcalls |-> 0, recalls |-> 0, err |-> <<>>, joined |-> 0,
          jtask |-> 0, seqno |-> 0, opret |-> NoRet,
          message |-> "none", sent |-> "none", notified |-> FALSE,
          pre |-> "none", li |-> 0, invoked |-> {}, lraised |-> FALSE]


(* ------------------------- scheduling helpers -------------------------- *)
Suspended(t) == running = 0 /\ ~cancel_req[t]
Goto(t, p) == pc' = [pc EXCEPT ![t] = p]
Return(t, v) == pc' = [pc EXCEPT ![t] = "ret"] /\ ret' = [ret EXCEPT ![t] = v]
Push(t, frame) == stack' = [stack EXCEPT ![t] = Append(stack[t], frame)]
SetLoc(t, l) == loc' = [loc EXCEPT ![t] = l]
Released == running' = 0
Holding(t) == running' = t

TypeOK ==
  /\ connected \in BOOLEAN
  /\ writer \in (0 - MaxSockets - 1)..(MaxSockets + 1)
  /\ paused \in BOOLEAN
  /\ listeners \in UNION {[1..n -> ListenerKinds] : n \in 1..MaxListeners}
  /\ receive_task \in {0} \cup LoopIds
  /\ pending_requests \subseteq 1..MaxRequests
  /\ client_connected \in BOOLEAN
  /\ is_reconnecting \in BOOLEAN
  /\ reconnect_task \in {0} \cup AutoIds
  /\ running \in {0} \cup Tasks

(* ------------------------------- Init ---------------------------------- *)
InitCommon ==
  /\ connected = FALSE
  /\ writer = 0
  /\ receive_task = 0
  /\ pending_requests = {}
  /\ fut = [i \in 1..MaxRequests |-> NoFuture]
  /\ socks = {}
  /\ nsock = 0
  /\ paused = FALSE
  /\ nextId = 1
  /\ client_connected = FALSE
  /\ is_reconnecting = FALSE
  /\ reconnect_task = 0
  /\ pc = [t \in Tasks |-> IF t \in Users THEN "idle" ELSE "none"]
  /\ stack = [t \in Tasks |-> <<>>]
  /\ ret = [t \in Tasks |-> NoRet]
  /\ loc = [t \in Tasks |-> NoLoc]
  /\ cancel_req = [t \in Tasks |-> FALSE]
  /\ running = 0
  /\ f_text = <<>> /\ f_wire = <<>> /\ f_msg = [ok |-> FALSE, text |-> <<>>]
  /\ f_pc = "off"
  /\ rx = NoRx

(* ------------------------------ listeners ------------------------------ *)
\* The listeners registered for a transition, in list order: a "quiet"
\* listener returns, a "failing" one returns or raises; both may suspend.
Listeners == 1..Len(listeners)
ListenerOutcomes ==
  {o \in [Listeners -> {"returns", "raises"}] :
     \A i \in Listeners : listeners[i] = "quiet" => o[i] = "returns"}

\* Variant: an exception of a listener ends the notification.
AfterListenerAbort(i, outcome) ==
  IF outcome = "raises" THEN Len(listeners) + 1 ELSE i + 1

\* `try: await listener() except Exception as e: logger.error(...)` in the
\* for loop: the listener that follows listener i.
AfterListener(i, outcome) == i + 1

\* The for loop over the listeners from listener i on, up to the point where
\* listener k suspends (k = Len(listeners) + 1: none does), with outcomes o of
\* the listeners that finish: the listeners invoked so far, whether one of
\* them raised, and whether the loop is over.
RECURSIVE Walk(_, _, _, _, _)
Walk(i, k, o, inv, r) ==
  IF i > Len(listeners)
    THEN [li |-> 0, invoked |-> inv, raised |-> r, done |-> TRUE]
  ELSE IF i = k
    THEN [li |-> i, invoked |-> inv \cup {i}, raised |-> r, done |-> FALSE]
    ELSE Walk(AfterListener(i, o[i]), k, o, inv \cup {i}, r \/ o[i] = "raises")

\* _notify_connection_listeners / _notify_disconnection_listeners from the
\* start: Done when every iteration is over, Wait when a listener suspends.
Notify(t, Done, Wait) ==
  \E k \in 1..(Len(listeners) + 1), o \in ListenerOutcomes :
    LET w == Walk(1, k, o, {}, FALSE) IN
      /\ SetLoc(t, [loc[t] EXCEPT !.li = w.li, !.invoked = w.invoked,
                                  !.lraised = w.raised])
      /\ IF w.done THEN Done ELSE Wait

\* The listener the task was suspended in returns or raises, and the loop
\* goes on.
NotifyResume(t, Done, Wait) ==
  \E k \in 1..(Len(listeners) + 1), o \in ListenerOutcomes :
    LET w == Walk(AfterListener(loc[t].li, o[loc[t].li]), k, o,
                  loc[t].invoked,
                  loc[t].lraised \/ o[loc[t].li] = "raises") IN
      /\ SetLoc(t, [loc[t] EXCEPT !.li = w.li, !.invoked = w.invoked,
                                  !.lraised = w.raised])
      /\ IF w.done THEN Done ELSE Wait

(* ---------------------- LowLevelTcpClient.connect ---------------------- *)
\* connect(): the already-connected check and the start of the attempt loop.
LLConnect(t) ==
  /\ running = t /\ pc[t] = "ll_connect"
  /\ IF connected
       THEN Return(t, Value("True")) /\ UNCHANGED loc
       ELSE Goto(t, "ll_loop") /\ SetLoc(t, [loc[t] EXCEPT !.attempts = 0])
            /\ UNCHANGED ret
  /\ UNCHANGED <<transportVars, client_connected, managerVars, stack,
                 cancel_req, running, role, listeners, peer_errors, frameVars, mgr, rctx, invocation, budget, hist>>

\* while attempts < max_attempts: attempts += 1; await open_connection(...)
LLLoop(t) ==
  /\ running = t /\ pc[t] = "ll_loop"
  /\ IF loc[t].attempts < MAX_ATTEMPTS
       THEN /\ SetLoc(t, [loc[t] EXCEPT !.attempts = @ + 1])
            /\ Goto(t, "ll_open") /\ Released /\ UNCHANGED ret
       ELSE \* all attempts failed: 'error' callbacks, return False
            /\ Return(t, Value("False")) /\ UNCHANGED <<loc, running>>
  /\ UNCHANGED <<transportVars, client_connected, managerVars, stack,
                 cancel_req, role, listeners, peer_errors, frameVars, mgr, rctx, invocation, budget, hist>>

\* The except branch of connect(): sleep RECONNECT_DELAY * attempts unless
\* this was the last attempt.
LLAttemptError(t) ==
  IF loc[t].attempts < MAX_ATTEMPTS
    THEN Goto(t, "ll_sleep") /\ Released
    ELSE Goto(t, "ll_loop") /\ Holding(t)

\* open_connection succeeds: reader/writer are assigned and the handshake
\* request is written; the task waits for the handshake response.
LLOpenOk(t) ==
  /\ Suspended(t) /\ pc[t] = "ll_open"
  /\ nsock < MaxSockets
  /\ nsock' = nsock + 1
  /\ writer' = nsock + 1
  /\ socks' = socks \cup {nsock + 1}
  /\ paused' = FALSE
  /\ Goto(t, "ll_hs") /\ Released
  /\ hist' = hist
  /\ UNCHANGED <<connected, receive_task, pending_requests, fut, nextId,
                 faults, client_connected, managerVars, stack, ret, loc,
                 cancel_req, role, listeners, peer_errors, frameVars, mgr, rctx, invocation, budget>>

\* open_connection raises (connection refused, unreachable host).
LLOpenFail(t) ==
  /\ Suspended(t) /\ pc[t] = "ll_open"
  /\ faults > 0 /\ faults' = faults - 1
  /\ LLAttemptError(t)
  /\ UNCHANGED <<connected, writer, receive_task, pending_requests, fut,
                 socks, nsock, paused, nextId, client_connected, managerVars,
                 stack, ret, loc, cancel_req, role, listeners, peer_errors, frameVars, mgr, rctx, invocation, budget, hist>>

\* The handshake response as the peer may send it: the token, white space
\* and other characters; <<>> is the end of the stream.
HANDSHAKE_RESPONSE == <<"YAUM_HANDSHAKE_RESPONSE">>
Whitespace == {" ", "\n"}
HandshakeSymbols == {"YAUM_HANDSHAKE_RESPONSE", "x"} \cup Whitespace
HandshakeReplies ==
  UNION {[1..k -> HandshakeSymbols] : k \in 0..2}
    \cup {<<" ", "YAUM_HANDSHAKE_RESPONSE", "\n">>}
\* What the 5-second read gives: data, the timeout, or a socket error.
HandshakeOutcomes ==
  [kind : {"data"}, text : HandshakeReplies]
    \cup [kind : {"timeout", "error"}, text : {<<>>}]

\* str.strip()
RECURSIVE Strip(_)
Strip(text) ==
  IF text = <<>> THEN text
  ELSE IF Head(text) \in Whitespace THEN Strip(Tail(text))
  ELSE IF text[Len(text)] \in Whitespace
    THEN Strip(SubSeq(text, 1, Len(text) - 1))
    ELSE text

\* The value _perform_handshake returns for what reader.read gave within 5 s.
PerformHandshake(o) ==
  o.kind = "data" /\ Strip(o.text) = HANDSHAKE_RESPONSE

\* _perform_handshake accepts the response and sleeps 0.5 s.  A response that
\* is not the bare token is a deviation of the peer.
LLHandshakeOk(t) ==
  /\ Suspended(t) /\ pc[t] = "ll_hs"
  /\ \E o \in HandshakeOutcomes :
       /\ PerformHandshake(o)
       /\ IF o.text = HANDSHAKE_RESPONSE
            THEN faults' = faults
            ELSE faults > 0 /\ faults' = faults - 1
       /\ hist' = [hist EXCEPT !.hs = o.text]
  /\ Goto(t, "ll_hs_ok") /\ Released
  /\ UNCHANGED <<connected, writer, receive_task, pending_requests, fut,
                 socks, nsock, paused, nextId, client_connected, managerVars,
                 stack, ret, loc, cancel_req, role, listeners, peer_errors, frameVars, mgr, rctx, invocation,
                 budget>>

\* _perform_handshake returns False (other content, timeout, socket error):
\* self.writer.close(); await self.writer.wait_closed().  With self.writer
\* None the close raises and the except branch of connect() runs.
LLHandshakeBad(t) ==
  /\ Suspended(t) /\ pc[t] = "ll_hs"
  /\ \E o \in HandshakeOutcomes : ~PerformHandshake(o)
  /\ faults > 0 /\ faults' = faults - 1
  /\ IF writer = 0
       THEN LLAttemptError(t) /\ UNCHANGED socks
       ELSE socks' = socks \ {writer} /\ Goto(t, "ll_hs_closing") /\ Released
  /\ UNCHANGED <<connected, writer, receive_task, pending_requests, fut,
                 nsock, paused, nextId, client_connected, managerVars, stack,
                 ret, loc, cancel_req, role, listeners, peer_errors, frameVars, mgr, rctx, invocation, budget, hist>>

\* wait_closed() returned after a failed handshake: reader = writer = None,
\* next attempt without any delay.
LLHandshakeClosed(t) ==
  /\ Suspended(t) /\ pc[t] = "ll_hs_closing"
  /\ writer' = 0
  /\ Goto(t, "ll_loop") /\ Holding(t)
  /\ UNCHANGED <<connected, receive_task, pending_requests, fut, socks, nsock,
                 faults, paused,
                 nextId, client_connected, managerVars, stack, ret, loc,
                 cancel_req, role, listeners, peer_errors, frameVars, mgr, rctx, invocation, budget, hist>>

\* The handshake succeeded: connected = True, the receive task is created,
\* the 'connected' callbacks run (UnityTcpClient._on_tcp_connected sets its
\* own flag), return True.
LLConnected(t) ==
  /\ Suspended(t) /\ pc[t] = "ll_hs_ok"
  /\ \E l \in LoopIds :
       /\ pc[l] = "none"
       /\ \A k \in LoopIds : k < l => pc[k] # "none"
       /\ connected' = TRUE
       /\ receive_task' = l
       /\ client_connected' = TRUE
       /\ pc' = [pc EXCEPT ![t] = "ret", ![l] = "new"]
       /\ ret' = [ret EXCEPT ![t] = Value("True")]
  /\ Holding(t)
  /\ hist' = [hist EXCEPT !.last = [u \in Users |-> "none"]]
  /\ UNCHANGED <<writer, pending_requests, fut, socks, nsock, faults, paused,
                 nextId, managerVars, stack, loc, cancel_req, role, listeners,
                 peer_errors, frameVars, mgr, rctx, invocation, budget>>

\* The backoff sleep of connect() is over.
LLSleepDone(t) ==
  /\ Suspended(t) /\ pc[t] = "ll_sleep"
  /\ Goto(t, "ll_loop") /\ Holding(t)
  /\ UNCHANGED <<transportVars, client_connected, managerVars, stack, ret,
                 loc, cancel_req, role, listeners, peer_errors, frameVars, mgr, rctx, invocation, budget, hist>>

(* ----------------------- UnityTcpClient.connect ------------------------ *)
\* result = await self.tcp_client.connect()
CCConnect(t) ==
  /\ running = t /\ pc[t] = "cc_connect"
  /\ Goto(t, "ll_connect") /\ Push(t, "cc_after")
  /\ UNCHANGED <<transportVars, client_connected, managerVars, ret, loc,
                 cancel_req, running, role, listeners, peer_errors, frameVars, mgr, rctx, invocation, budget, hist>>

\* self.connected = result; return result (except Exception: return False)
CCAfter(t) ==
  /\ running = t /\ pc[t] = "cc_after"
  /\ IF ret[t].exc
       THEN /\ Return(t, IF ret[t] = Cancelled THEN Cancelled ELSE Value("False"))
            /\ UNCHANGED client_connected
       ELSE /\ client_connected' = (ret[t].val = "True")
            /\ Return(t, ret[t])
  /\ UNCHANGED <<transportVars, managerVars, stack, loc, cancel_req, running,
                 role, listeners, peer_errors, frameVars, mgr, rctx, invocation, budget, hist>>

(* ----------------------- the peer's side of drain ---------------------- *)
\* The peer stops reading: the write buffer fills and `await
\* self.writer.drain()` of _send_frame no longer returns.
PeerStopsReading ==
  /\ running = 0 /\ writer # 0 /\ ~paused
  /\ paused' = TRUE
  /\ UNCHANGED <<connected, writer, receive_task, pending_requests, fut, socks,
                 nsock, faults, nextId, client_connected, managerVars, pc,
                 stack, ret, loc, cancel_req, running, role, listeners, peer_errors,
                 frameVars, mgr, rctx, invocation, budget, hist>>

\* The peer reads again: every suspended drain() may return.
PeerReadsAgain ==
  /\ running = 0 /\ paused
  /\ paused' = FALSE
  /\ UNCHANGED <<connected, writer, receive_task, pending_requests, fut, socks,
                 nsock, faults, nextId, client_connected, managerVars, pc,
                 stack, ret, loc, cancel_req, running, role, listeners, peer_errors,
                 frameVars, mgr, rctx, invocation, budget, hist>>

PeerStep == PeerStopsReading \/ PeerReadsAgain

(* ------------------ LowLevelTcpClient._receive_messages ----------------- *)
\* Requests whose future is still pending.
Waiting == {i \in pending_requests : fut[i].state = "pending"}

\* Requests whose caller is suspended on the future (the request was sent).
Awaited == {i \in Waiting : \E t \in Users : pc[t] = "send_wait" /\ loc[t].req = i}

\* The receive task ends.
LoopEnds(l) ==
  /\ pc' = [pc EXCEPT ![l] = "done"]
  /\ ret' = [ret EXCEPT ![l] = NoRet]
  /\ Released

\* First run of the task: the connected check and the initial PING, whose
\* failure is caught and ignored.
RLStart(l) ==
  /\ Suspended(l) /\ pc[l] = "new"
  /\ IF ~connected
       THEN LoopEnds(l)
       ELSE /\ UNCHANGED ret
            /\ IF writer # 0 /\ paused
                 THEN Goto(l, "rl_ping0") /\ Released
                 ELSE Goto(l, "rl_top") /\ Holding(l)
  /\ UNCHANGED <<transportVars, client_connected, managerVars, stack, loc,
                 cancel_req, role, listeners, peer_errors, frameVars, mgr, rctx, invocation, budget, hist>>

\* drain() of the initial PING returned.
RLPing0Done(l) ==
  /\ Suspended(l) /\ pc[l] = "rl_ping0"
  /\ ~paused
  /\ Goto(l, "rl_top") /\ Holding(l)
  /\ UNCHANGED <<transportVars, client_connected, managerVars, stack, ret,
                 loc, cancel_req, role, listeners, peer_errors, frameVars, mgr, rctx, invocation, budget, hist>>

\* drain() of the initial PING raised: the error is caught and ignored.
RLPing0Fail(l) ==
  /\ Suspended(l) /\ pc[l] = "rl_ping0"
  /\ Goto(l, "rl_top") /\ Holding(l)
  /\ UNCHANGED <<transportVars, client_connected, managerVars, stack, ret,
                 loc, cancel_req, role, listeners, peer_errors, frameVars, mgr, rctx, invocation, budget, hist>>

\* `while self.connected:` then the periodic PING when due, then
\* wait_for(self._receive_frame(), 1.0).  _send_frame and _receive_frame raise
\* when reader/writer is None; a failed PING breaks out of the loop.  The
\* drain() of the PING suspends while the peer is not reading.
RLTop(l) ==
  /\ running = l /\ pc[l] = "rl_top"
  /\ hist' = hist
  /\ SetLoc(l, [loc[l] EXCEPT !.message = "none", !.sent = "none",
                              !.notified = FALSE])
  /\ IF ~connected
       THEN LoopEnds(l)
       ELSE IF writer = 0
         THEN \/ LoopEnds(l)
              \/ Goto(l, "rl_except") /\ UNCHANGED <<ret, running>>
         ELSE /\ UNCHANGED ret
              /\ \/ Goto(l, "rl_read") /\ Released
                 \/ paused /\ Goto(l, "rl_ping") /\ Released
  /\ UNCHANGED <<transportVars, client_connected, managerVars, stack,
                 cancel_req, role, listeners, peer_errors, frameVars, mgr, rctx, invocation, budget>>

\* drain() of a periodic PING returned.
RLPingDone(l) ==
  /\ Suspended(l) /\ pc[l] = "rl_ping"
  /\ ~paused
  /\ IF ~connected \/ writer = 0
       THEN Goto(l, "rl_except") /\ Holding(l)
       ELSE Goto(l, "rl_read") /\ Released
  /\ UNCHANGED <<transportVars, client_connected, managerVars, stack, ret,
                 loc, cancel_req, role, listeners, peer_errors, frameVars, mgr, rctx, invocation, budget, hist>>

\* drain() of a periodic PING raised: `break`.
RLPingFail(l) ==
  /\ Suspended(l) /\ pc[l] = "rl_ping"
  /\ LoopEnds(l)
  /\ hist' = [hist EXCEPT !.lost = @ \cup Awaited]
  /\ UNCHANGED <<transportVars, client_connected, managerVars, stack, loc,
                 cancel_req, role, listeners, peer_errors, frameVars, mgr, rctx, invocation, budget>>

\* The frame the loop writes in answer to a received message.
KeepAliveReplyNone(m) == "none"

KeepAliveReply(m) == IF m = "PING" THEN "PONG" ELSE "none"

\* json.loads(message) succeeds, so the 'message' callbacks are triggered.
IsJson(m) == m \in {"notdict", "envelope"}

\* The loop has taken message m from the stream.
Received(l, m, sent) ==
  SetLoc(l, [loc[l] EXCEPT !.message = m, !.sent = sent,
                           !.notified = m # "PONG" /\ IsJson(m)])

\* A frame other than a response envelope, or the poll timeout.
RLRecvOther(l, m) ==
  /\ Suspended(l) /\ pc[l] = "rl_read"
  /\ m \in {"timeout", "PONG", "notjson", "notdict"}
  /\ Goto(l, "rl_top") /\ Holding(l)
  /\ Received(l, m, "none")
  /\ hist' = hist
  /\ UNCHANGED <<transportVars, client_connected, managerVars, stack, ret,
                 cancel_req, role, listeners, peer_errors, frameVars, mgr, rctx, invocation, budget>>

\* _receive_frame returned None (end of stream or framing error): `break`.
\* Nothing follows the loop.
RLRecvNone(l) ==
  /\ Suspended(l) /\ pc[l] = "rl_read"
  /\ LoopEnds(l)
  /\ hist' = [hist EXCEPT !.lost = @ \cup Awaited]
  /\ UNCHANGED <<transportVars, client_connected, managerVars, stack, loc,
                 cancel_req, role, listeners, peer_errors, frameVars, mgr, rctx, invocation, budget>>

\* A PING frame: await self._send_frame(PONG_RESPONSE); an exception of the
\* send leaves the loop through the outer `except Exception`.
RLRecvPing(l) ==
  /\ Suspended(l) /\ pc[l] = "rl_read"
  /\ IF KeepAliveReply("PING") = "none"
       THEN Goto(l, "rl_top") /\ Holding(l) /\ Received(l, "PING", "none")
       ELSE IF connected /\ writer # 0
         THEN /\ Received(l, "PING", KeepAliveReply("PING"))
              /\ IF paused
                   THEN Goto(l, "rl_pong") /\ Released
                   ELSE Goto(l, "rl_top") /\ Holding(l)
         ELSE /\ Goto(l, "rl_except") /\ Holding(l)
              /\ Received(l, "PING", "none")
  /\ hist' = hist
  /\ UNCHANGED <<transportVars, client_connected, managerVars, stack, ret,
                 cancel_req, role, listeners, peer_errors, frameVars, mgr, rctx, invocation, budget>>

\* drain() of the PONG returned.
RLPongDone(l) ==
  /\ Suspended(l) /\ pc[l] = "rl_pong"
  /\ ~paused
  /\ Goto(l, "rl_top") /\ Holding(l)
  /\ UNCHANGED <<transportVars, client_connected, managerVars, stack, ret,
                 loc, cancel_req, role, listeners, peer_errors, frameVars, mgr, rctx, invocation, budget, hist>>

\* drain() of the PONG raised.
RLPongFail(l) ==
  /\ Suspended(l) /\ pc[l] = "rl_pong"
  /\ Goto(l, "rl_except") /\ Holding(l)
  /\ hist' = [hist EXCEPT !.lost = @ \cup Awaited]
  /\ UNCHANGED <<transportVars, client_connected, managerVars, stack, ret,
                 loc, cancel_req, role, listeners, peer_errors, frameVars, mgr, rctx, invocation, budget>>

\* Variant: responses are matched to requests in order of sending.
ResolveTargetOldest(e) ==
  CHOOSE i \in pending_requests : \A j \in pending_requests : i <= j

\* The future the read loop resolves for a response envelope.
ResolveTarget(e) == e.id

\* A JSON object: `if request_id in self.pending_requests:` pop the future
\* and set its result unless it is done.
RLRecvObject(l, e) ==
  /\ Suspended(l) /\ pc[l] = "rl_read"
  /\ IF e.id \in pending_requests
       THEN /\ pending_requests' = pending_requests \ {ResolveTarget(e)}
            /\ fut' = IF fut[ResolveTarget(e)].state = "pending"
                        THEN [fut EXCEPT ![ResolveTarget(e)] =
                                [state |-> "result", val |-> e]]
                        ELSE fut
            /\ hist' = hist
       ELSE /\ UNCHANGED <<pending_requests, fut>>
            /\ hist' = IF e.id # 0 /\ fut[e.id].state = "cancelled"
                         THEN [hist EXCEPT !.late = @ \cup {e.id}]
                         ELSE hist
  /\ Goto(l, "rl_top") /\ Holding(l)
  /\ Received(l, "envelope", "none")
  /\ UNCHANGED <<connected, writer, receive_task, socks, nsock, faults,
                 paused, nextId, client_connected, managerVars, stack, ret,
                 cancel_req, role, listeners, peer_errors, frameVars, mgr, rctx, invocation, budget>>

\* A response envelope of the peer.
RLRecvEnvelope(l, e) ==
  /\ e \in Envelopes
  /\ RLRecvObject(l, e)

\* except Exception: 'error' callbacks; if self.connected: await disconnect()
RLExcept(l) ==
  /\ running = l /\ pc[l] = "rl_except"
  /\ IF connected
       THEN Goto(l, "disc_call") /\ Push(l, "rl_end") /\ UNCHANGED <<ret, running>>
       ELSE LoopEnds(l) /\ UNCHANGED stack
  /\ UNCHANGED <<transportVars, client_connected, managerVars, loc,
                 cancel_req, role, listeners, peer_errors, frameVars, mgr, rctx, invocation, budget, hist>>

\* disconnect() called from the receive task returned (or was cancelled).
RLEnd(l) ==
  /\ running = l /\ pc[l] = "rl_end"
  /\ LoopEnds(l)
  /\ UNCHANGED <<transportVars, client_connected, managerVars, stack, loc,
                 cancel_req, role, listeners, peer_errors, frameVars, mgr, rctx, invocation, budget, hist>>

(* -------------------- LowLevelTcpClient.send_command -------------------- *)
\* Variant: the entry is left in the table.
PopRequestKeep(i) == pending_requests

\* self.pending_requests.pop(request_id, None)
PopRequest(i) == pending_requests \ {i}

\* The connected check, the fresh id, the future, the pending entry and
\* _send_frame up to its drain(), which suspends while the peer is not
\* reading; then the wait for the future.
SendCall(t) ==
  /\ running = t /\ pc[t] = "send_call"
  /\ hist' = hist
  /\ IF ~connected
       THEN /\ Return(t, Error(NotConnectedMsg))
            /\ UNCHANGED <<pending_requests, fut, nextId, loc, running>>
       ELSE /\ nextId' = nextId + 1
            /\ SetLoc(t, [loc[t] EXCEPT !.req = nextId, !.resp = NoEnvelope])
            /\ IF writer = 0
                 THEN /\ fut' = [fut EXCEPT ![nextId] =
                                   [state |-> "pending", val |-> NoEnvelope]]
                      /\ pending_requests' = pending_requests
                      /\ Return(t, Error(NotConnectedMsg))
                      /\ UNCHANGED running
                 ELSE /\ fut' = [fut EXCEPT ![nextId] =
                                   [state |-> "pending", val |-> NoEnvelope]]
                      /\ pending_requests' = pending_requests \cup {nextId}
                      /\ UNCHANGED ret
                      /\ Released
                      /\ IF paused
                           THEN Goto(t, "send_drain")
                           ELSE Goto(t, "send_wait")
  /\ UNCHANGED <<connected, writer, receive_task, socks, nsock, faults, paused,
                 client_connected, managerVars, stack, cancel_req, role, listeners,
                 peer_errors, frameVars, mgr, rctx, invocation, budget>>

\* drain() returned: await asyncio.wait_for(future, timeout=60.0)
SendDrainDone(t) ==
  /\ Suspended(t) /\ pc[t] = "send_drain"
  /\ ~paused
  /\ Goto(t, "send_wait") /\ Released
  /\ UNCHANGED <<transportVars, client_connected, managerVars, stack, ret,
                 loc, cancel_req, role, listeners, peer_errors, frameVars, mgr, rctx, invocation, budget, hist>>

\* drain() raised: the outer except pops the entry and re-raises.
SendDrainFail(t) ==
  /\ Suspended(t) /\ pc[t] = "send_drain"
  /\ pending_requests' = PopRequest(loc[t].req)
  /\ Return(t, Error(ConnectionLostMsg)) /\ Holding(t)
  /\ UNCHANGED <<connected, writer, receive_task, fut, socks, nsock, faults,
                 paused, nextId,
                 client_connected, managerVars, stack, loc, cancel_req, role, listeners,
                 peer_errors, frameVars, mgr, rctx, invocation,
                 budget, hist>>

\* The future is done: a result is processed (status error raises, otherwise
\* the result member is returned), an exception is re-raised.
SendWake(t) ==
  /\ Suspended(t) /\ pc[t] = "send_wait"
  /\ fut[loc[t].req].state \in {"result", "exception"}
  /\ LET f == fut[loc[t].req] IN
       IF f.state = "result"
         THEN /\ SetLoc(t, [loc[t] EXCEPT !.resp = f.val])
              /\ IF f.val.status = "error"
                   THEN Return(t, Error(CommandErrorMsg(loc[t].cmd, f.val.error)))
                   ELSE Return(t, Value(f.val.result))
         ELSE /\ Return(t, Error(DisconnectedMsg))
              /\ UNCHANGED loc
  /\ pending_requests' = PopRequest(loc[t].req)
  /\ fut' = [fut EXCEPT ![loc[t].req] = [state |-> "consumed", val |-> NoEnvelope]]
  /\ Holding(t)
  /\ UNCHANGED <<connected, writer, receive_task, socks, nsock, faults, paused, nextId,
                 client_connected, managerVars, stack, cancel_req, role, listeners,
                 peer_errors, frameVars, mgr, rctx, invocation,
                 budget, hist>>

\* wait_for times out: it cancels the future; the entry is popped and the
\* call raises "Timeout waiting for response to command <command>".
SendTimeout(t) ==
  /\ Suspended(t) /\ pc[t] = "send_wait"
  /\ fut[loc[t].req].state = "pending"
  /\ fut' = [fut EXCEPT ![loc[t].req].state = "cancelled"]
  /\ pending_requests' = PopRequest(loc[t].req)
  /\ Return(t, Error(TimeoutMsg(loc[t].cmd))) /\ Holding(t)
  /\ UNCHANGED <<connected, writer, receive_task, socks, nsock, faults, paused, nextId,
                 client_connected, managerVars, stack, loc, cancel_req, role, listeners,
                 peer_errors, frameVars, mgr, rctx, invocation,
                 budget, hist>>

(* --------------------- LowLevelTcpClient.disconnect --------------------- *)
\* task.cancel(): no effect on a task that is done.
CancelTask(c, k) ==
  [x \in Tasks |-> IF x = k /\ pc[k] \notin {"none", "done"} THEN TRUE ELSE c[x]]

\* Variant: disconnect() without the connected check.
AlreadyDisconnectedNever == FALSE

\* if not self.connected: return
AlreadyDisconnected == ~connected

\* The connected check, cancelling the receive task, writer.close() and the
\* await of wait_closed(), which may or may not suspend.
DiscCall(t) ==
  /\ running = t /\ pc[t] = "disc_call"
  /\ IF AlreadyDisconnected
       THEN /\ Return(t, Value("none"))
            /\ UNCHANGED <<receive_task, socks, cancel_req, running, hist>>
       ELSE /\ cancel_req' = IF receive_task # 0
                               THEN CancelTask(cancel_req, receive_task)
                               ELSE cancel_req
            /\ receive_task' = 0
            /\ hist' = [hist EXCEPT !.dpend[t] = IF t \in Users THEN Awaited ELSE {}]
            /\ IF writer = 0
                 THEN Goto(t, "disc_closed") /\ UNCHANGED <<socks, running, ret>>
                 ELSE IF writer < 0
                   THEN \* wait_closed() raises again, without suspending
                        Return(t, Value("none")) /\ UNCHANGED <<socks, running>>
                 ELSE /\ socks' = socks \ {writer}
                      /\ UNCHANGED ret
                      /\ \/ Goto(t, "disc_closing") /\ Released
                         \/ Goto(t, "disc_closed") /\ UNCHANGED running
  /\ UNCHANGED <<connected, writer, pending_requests, fut, nsock, faults, paused, nextId,
                 client_connected, managerVars, stack, loc, role, listeners, peer_errors,
                 frameVars, mgr, rctx, invocation, budget>>

\* wait_closed() returned.
DiscCloseDone(t) ==
  /\ Suspended(t) /\ pc[t] = "disc_closing"
  /\ Goto(t, "disc_closed") /\ Holding(t)
  /\ UNCHANGED <<transportVars, client_connected, managerVars, stack, ret,
                 loc, cancel_req, role, listeners, peer_errors, frameVars, mgr, rctx, invocation, budget, hist>>

\* wait_closed() raised (connection reset): except Exception logs, triggers
\* the 'error' callbacks and returns; nothing else of disconnect() runs.
DiscCloseFail(t) ==
  /\ Suspended(t) /\ pc[t] = "disc_closing"
  /\ Return(t, Value("none")) /\ Holding(t)
  /\ writer' = IF writer > 0 THEN 0 - writer ELSE writer
  /\ UNCHANGED <<connected, receive_task, pending_requests, fut, socks, nsock,
                 faults, paused, nextId, client_connected, managerVars, stack,
                 loc, cancel_req, role, listeners, peer_errors, frameVars, mgr, rctx, invocation, budget, hist>>

\* writer = reader = None; connected = False; the 'disconnected' callbacks:
\* UnityTcpClient._on_tcp_disconnected clears its flag and calls
\* UnityConnectionManager._handle_disconnect, which first notifies the
\* disconnection listeners (they may suspend).
DiscClosed(t) ==
  /\ running = t /\ pc[t] = "disc_closed"
  /\ writer' = 0
  /\ connected' = FALSE
  /\ client_connected' = FALSE
  /\ hist' = hist
  /\ Notify(t, Goto(t, "disc_handle") /\ UNCHANGED running,
               Goto(t, "disc_listeners") /\ Released)
  /\ UNCHANGED <<receive_task, pending_requests, fut, socks, nsock, faults,
                 paused, nextId, managerVars, stack, ret, cancel_req, role, listeners,
                 peer_errors, frameVars, mgr, rctx, invocation, budget>>

DiscListenersDone(t) ==
  /\ Suspended(t) /\ pc[t] = "disc_listeners"
  /\ NotifyResume(t, Goto(t, "disc_handle") /\ Holding(t),
                     UNCHANGED <<pc, running>>)
  /\ UNCHANGED <<transportVars, client_connected, managerVars, stack, ret,
                 cancel_req, role, listeners, peer_errors, frameVars, mgr, rctx, invocation, budget, hist>>

\* for ... in self.pending_requests.items(): set_exception unless done;
\* self.pending_requests.clear()
RejectAll(f) ==
  [i \in DOMAIN f |->
     IF i \in pending_requests /\ f[i].state = "pending"
       THEN [state |-> "exception", val |-> NoEnvelope]
       ELSE f[i]]

\* The rest of _handle_disconnect (the automatic reconnect task), then the
\* rest of disconnect(): reject and clear the pending requests.
DiscHandle(t) ==
  /\ running = t /\ pc[t] = "disc_handle"
  /\ IF auto_reconnect /\ ~is_reconnecting
       THEN \E a \in AutoIds :
              /\ pc[a] = "none"
              /\ \A k \in AutoIds : k < a => pc[k] # "none"
              /\ reconnect_task' = a
              /\ pc' = [pc EXCEPT ![t] = "ret", ![a] = "new"]
       ELSE /\ Goto(t, "ret")
            /\ UNCHANGED reconnect_task
  /\ ret' = [ret EXCEPT ![t] = Value("none")]
  /\ fut' = RejectAll(fut)
  /\ pending_requests' = {}
  /\ UNCHANGED <<connected, writer, receive_task, socks, nsock, faults, paused, nextId,
                 client_connected, is_reconnecting, auto_reconnect,
                 reconnect_attempts, stack, loc, cancel_req, running, role, listeners,
                 peer_errors, frameVars, mgr, rctx, invocation,
                 budget, hist>>

(* ---------------------- UnityTcpClient.disconnect ----------------------- *)
CDCall(t) ==
  /\ running = t /\ pc[t] = "cd_call"
  /\ Goto(t, "disc_call") /\ Push(t, "cd_after")
  /\ UNCHANGED <<transportVars, client_connected, managerVars, ret, loc,
                 cancel_req, running, role, listeners, peer_errors, frameVars, mgr, rctx, invocation, budget, hist>>

\* self.connected = False after the transport's disconnect() returned.
CDAfter(t) ==
  /\ running = t /\ pc[t] = "cd_after"
  /\ IF ret[t].exc
       THEN UNCHANGED client_connected
       ELSE client_connected' = FALSE
  /\ Return(t, IF ret[t] = Cancelled THEN Cancelled ELSE Value("none"))
  /\ UNCHANGED <<transportVars, managerVars, stack, loc, cancel_req, running,
                 role, listeners, peer_errors, frameVars, mgr, rctx, invocation, budget, hist>>

(* ------------------- UnityConnectionManager.reconnect ------------------- *)
reconnect_delay == 2
default_reconnect_attempts == 5

\* 2 ** n
RECURSIVE Pow2(_)
Pow2(n) == IF n = 0 THEN 1 ELSE 2 * Pow2(n - 1)

\* Variant: the linear backoff of the transport's own retry loop.
BackoffDelayLinear(attempt) == reconnect_delay * attempt

\* delay = self.reconnect_delay * (2 ** (attempt - 1))
BackoffDelay(attempt) == reconnect_delay * Pow2(attempt - 1)

\* The attempt sequence that is running, 0 when there is none.
InFlight ==
  IF \E k \in 1..Len(hist.seqres) : hist.seqres[k] = "running"
    THEN CHOOSE k \in 1..Len(hist.seqres) : hist.seqres[k] = "running"
    ELSE 0

\* What a reconnect() call that finds is_reconnecting set does: await the
\* reconnect task if there is one that is not done, otherwise return False.
\* "self" stands for a task awaiting itself, which raises RuntimeError.
JoinChoice(t) ==
  IF reconnect_task # 0 /\ pc[reconnect_task] # "done"
    THEN IF reconnect_task = t THEN "self" ELSE "await"
    ELSE "false"

\* The two early returns of reconnect(), or the start of an attempt sequence.
RCCall(t) ==
  /\ running = t /\ pc[t] = "rc_call"
  /\ IF client_connected
       THEN /\ Return(t, Value("True"))
            /\ UNCHANGED <<is_reconnecting, loc, running, hist>>
       ELSE IF is_reconnecting
         THEN /\ SetLoc(t, [loc[t] EXCEPT !.joined = InFlight,
                                          !.jtask = reconnect_task])
              /\ UNCHANGED is_reconnecting
              /\ IF JoinChoice(t) = "await"
                   THEN /\ Goto(t, "rc_join") /\ Released
                        /\ UNCHANGED <<ret, hist>>
                   ELSE /\ Return(t, Value("False")) /\ UNCHANGED running
                        /\ hist' = [hist EXCEPT !.joins =
                                      @ \cup {[seq |-> InFlight, val |-> "False"]}]
         ELSE /\ is_reconnecting' = TRUE
              /\ hist' = [hist EXCEPT !.seqres = Append(@, "running")]
              /\ SetLoc(t, [loc[t] EXCEPT !.attempt = 1, !.delays = <<>>,
                                          !.tries = 0,
                                          !.seqno = Len(hist.seqres) + 1])
              /\ Goto(t, "rc_attempt")
              /\ UNCHANGED <<ret, running>>
  /\ UNCHANGED <<transportVars, client_connected, reconnect_task,
                 auto_reconnect, reconnect_attempts, stack, cancel_req, role, listeners,
                 peer_errors, frameVars, mgr, rctx, invocation,
                 budget>>

\* result = await self.client.connect()
RCAttempt(t) ==
  /\ running = t /\ pc[t] = "rc_attempt"
  /\ Goto(t, "cc_connect") /\ Push(t, "rc_after")
  /\ SetLoc(t, [loc[t] EXCEPT !.tries = @ + 1])
  /\ UNCHANGED <<transportVars, client_connected, managerVars, ret,
                 cancel_req, running, role, listeners, peer_errors, frameVars, mgr, rctx, invocation, budget, hist>>

\* reconnect() leaves its try block: finally: self.is_reconnecting = False
RCLeave(t, v) ==
  /\ is_reconnecting' = FALSE
  /\ Return(t, v)
  /\ hist' = [hist EXCEPT !.seqres[loc[t].seqno] =
                IF v = Cancelled THEN "cancelled" ELSE v.val]

\* After an attempt: success notifies the connection listeners and returns
\* True; otherwise sleep the backoff delay unless this was the last attempt,
\* after which the sequence returns False.
RCAfter(t) ==
  /\ running = t /\ pc[t] = "rc_after"
  /\ IF ret[t] = Cancelled
       THEN RCLeave(t, Cancelled) /\ UNCHANGED <<loc, running>>
       ELSE IF ~ret[t].exc /\ ret[t].val = "True"
         THEN Notify(t, RCLeave(t, Value("True")) /\ UNCHANGED running,
                        /\ Goto(t, "rc_listeners") /\ Released
                        /\ UNCHANGED <<is_reconnecting, ret, hist>>)
         ELSE IF loc[t].attempt < reconnect_attempts
           THEN /\ SetLoc(t, [loc[t] EXCEPT !.delays =
                                Append(@, BackoffDelay(loc[t].attempt))])
                /\ Goto(t, "rc_sleep") /\ Released
                /\ UNCHANGED <<is_reconnecting, ret, hist>>
           ELSE RCLeave(t, Value("False")) /\ UNCHANGED <<loc, running>>
  /\ UNCHANGED <<transportVars, client_connected, reconnect_task,
                 auto_reconnect, reconnect_attempts, stack, cancel_req, role, listeners,
                 peer_errors, frameVars, mgr, rctx, invocation,
                 budget>>

\* The backoff sleep is over: next attempt.
RCSleepDone(t) ==
  /\ Suspended(t) /\ pc[t] = "rc_sleep"
  /\ SetLoc(t, [loc[t] EXCEPT !.attempt = @ + 1])
  /\ Goto(t, "rc_attempt") /\ Holding(t)
  /\ UNCHANGED <<transportVars, client_connected, managerVars, stack, ret,
                 cancel_req, role, listeners, peer_errors, frameVars, mgr, rctx, invocation, budget, hist>>

\* The connection listeners are done: return True.
RCListenersDone(t) ==
  /\ Suspended(t) /\ pc[t] = "rc_listeners"
  /\ NotifyResume(t, RCLeave(t, Value("True")) /\ Holding(t),
                     UNCHANGED <<pc, running, is_reconnecting, ret, hist>>)
  /\ UNCHANGED <<transportVars, client_connected, reconnect_task,
                 auto_reconnect, reconnect_attempts, stack, cancel_req,
                 role, listeners, peer_errors, frameVars, mgr, rctx, invocation, budget>>

\* `return await self.reconnect_task` resumes when that task is done; an
\* exception of the task gives False, its cancellation is re-raised.
RCJoinDone(t) ==
  /\ Suspended(t) /\ pc[t] = "rc_join"
  /\ pc[loc[t].jtask] = "done"
  /\ LET r == ret[loc[t].jtask]
         v == IF r = Cancelled THEN Cancelled
              ELSE IF r.exc THEN Value("False") ELSE r
     IN /\ Return(t, v)
        /\ hist' = [hist EXCEPT !.joins =
                      @ \cup {[seq |-> loc[t].joined,
                               val |-> IF v = Cancelled THEN "cancelled" ELSE v.val]}]
  /\ Holding(t)
  /\ UNCHANGED <<transportVars, client_connected, managerVars, stack, loc,
                 cancel_req, role, listeners, peer_errors, frameVars, mgr, rctx, invocation, budget>>

(* --------- UnityConnectionManager._auto_reconnect / connect ------------- *)
\* await asyncio.sleep(1.0)
AutoStart(a) ==
  /\ Suspended(a) /\ pc[a] = "new" /\ a \in AutoIds
  /\ Goto(a, "auto_sleep") /\ Released
  /\ UNCHANGED <<transportVars, client_connected, managerVars, stack, ret,
                 loc, cancel_req, role, listeners, peer_errors, frameVars, mgr, rctx, invocation, budget, hist>>

\* return await self.reconnect()
AutoSleepDone(a) ==
  /\ Suspended(a) /\ pc[a] = "auto_sleep"
  /\ Goto(a, "rc_call") /\ Holding(a)
  /\ UNCHANGED <<transportVars, client_connected, managerVars, stack, ret,
                 loc, cancel_req, role, listeners, peer_errors, frameVars, mgr, rctx, invocation, budget, hist>>

\* UnityConnectionManager.connect: the already-connected check, then
\* await self.client.connect()
MCCall(t) ==
  /\ running = t /\ pc[t] = "mc_call"
  /\ IF client_connected
       THEN Return(t, Value("True")) /\ UNCHANGED stack
       ELSE Goto(t, "cc_connect") /\ Push(t, "mc_after") /\ UNCHANGED ret
  /\ UNCHANGED <<transportVars, client_connected, managerVars, loc,
                 cancel_req, running, role, listeners, peer_errors, frameVars, mgr, rctx, invocation, budget, hist>>

MCAfter(t) ==
  /\ running = t /\ pc[t] = "mc_after"
  /\ IF ret[t].exc
       THEN /\ Return(t, IF ret[t] = Cancelled THEN Cancelled ELSE Value("False"))
            /\ UNCHANGED <<running, loc>>
       ELSE IF ret[t].val = "True"
         THEN Notify(t, Return(t, Value("True")) /\ UNCHANGED running,
                        Goto(t, "mc_listeners") /\ Released /\ UNCHANGED ret)
         ELSE Return(t, ret[t]) /\ UNCHANGED <<running, loc>>
  /\ UNCHANGED <<transportVars, client_connected, managerVars, stack,
                 cancel_req, role, listeners, peer_errors, frameVars, mgr, rctx, invocation, budget, hist>>

MCListenersDone(t) ==
  /\ Suspended(t) /\ pc[t] = "mc_listeners"
  /\ NotifyResume(t, Return(t, Value("True")) /\ Holding(t),
                     UNCHANGED <<pc, ret, running>>)
  /\ UNCHANGED <<transportVars, client_connected, managerVars, stack,
                 cancel_req, role, listeners, peer_errors, frameVars, mgr, rctx, invocation, budget, hist>>

(* ------------------ UnityConnectionManager.disconnect ------------------- *)
\* The connected check, cancelling the reconnect task, client.disconnect().
MDCall(t) ==
  /\ running = t /\ pc[t] = "md_call"
  /\ IF ~client_connected
       THEN /\ Return(t, Value("none"))
            /\ UNCHANGED <<reconnect_task, cancel_req, stack>>
       ELSE /\ cancel_req' = IF reconnect_task # 0
                               THEN CancelTask(cancel_req, reconnect_task)
                               ELSE cancel_req
            /\ reconnect_task' = IF reconnect_task # 0 /\ pc[reconnect_task] # "done"
                                   THEN 0 ELSE reconnect_task
            /\ Goto(t, "cd_call") /\ Push(t, "md_after")
            /\ UNCHANGED ret
  /\ UNCHANGED <<transportVars, client_connected, is_reconnecting,
                 auto_reconnect, reconnect_attempts, loc, running, role, listeners,
                 peer_errors, frameVars, mgr, rctx, invocation,
                 budget, hist>>

\* await self._notify_disconnection_listeners()
MDAfter(t) ==
  /\ running = t /\ pc[t] = "md_after"
  /\ IF ret[t] = Cancelled
       THEN Return(t, Cancelled) /\ UNCHANGED <<running, loc>>
       ELSE Notify(t, Return(t, Value("none")) /\ UNCHANGED running,
                      Goto(t, "md_listeners") /\ Released /\ UNCHANGED ret)
  /\ hist' = hist
  /\ UNCHANGED <<transportVars, client_connected, managerVars, stack,
                 cancel_req, role, listeners, peer_errors, frameVars, mgr, rctx, invocation, budget>>

MDListenersDone(t) ==
  /\ Suspended(t) /\ pc[t] = "md_listeners"
  /\ NotifyResume(t, Return(t, Value("none")) /\ Holding(t),
                     UNCHANGED <<pc, ret, running>>)
  /\ UNCHANGED <<transportVars, client_connected, managerVars, stack,
                 cancel_req, role, listeners, peer_errors, frameVars, mgr, rctx, invocation, budget, hist>>

(* ------------- UnityConnectionManager.execute_with_reconnect ------------ *)
\* Variant: every failure counts as a connection error.
IsConnectionErrorAny(msg) == TRUE

\* "Not connected" in str(e)
IsConnectionError(msg) == Contains(msg, <<"Not", "connected">>)

\* if not self.client.connected: connected = await self.reconnect()
EWRCall(t) ==
  /\ running = t /\ pc[t] = "ewr_call"
  /\ IF ~client_connected
       THEN Goto(t, "rc_call") /\ Push(t, "ewr_pre")
       ELSE Goto(t, "ewr_op") /\ UNCHANGED stack
  /\ UNCHANGED <<transportVars, client_connected, managerVars, ret, loc,
                 cancel_req, running, role, listeners, peer_errors, frameVars, mgr, rctx, invocation, budget, hist>>

\* Variant: the result of reconnect() is not looked at.
ReconnectedAlways(r) == TRUE

\* `connected = await self.reconnect()`, then `if not connected:`
Reconnected(r) == r.val = "True"

\* if not connected: raise Exception("Not connected to Unity and ...")
EWRPre(t) ==
  /\ running = t /\ pc[t] = "ewr_pre"
  /\ IF ret[t] = Cancelled
       THEN Return(t, Cancelled) /\ UNCHANGED loc
       ELSE /\ SetLoc(t, [loc[t] EXCEPT !.pre = ret[t].val])
            /\ IF Reconnected(ret[t])
                 THEN Goto(t, "ewr_op") /\ UNCHANGED ret
                 ELSE Return(t, Error(ReconnectFailedMsg))
  /\ UNCHANGED <<transportVars, client_connected, managerVars, stack,
                 cancel_req, running, role, listeners, peer_errors, frameVars, mgr, rctx, invocation, budget, hist>>

\* return await operation(*args, **kwargs), inside the try
EWROp(t) ==
  /\ running = t /\ pc[t] = "ewr_op"
  /\ Goto(t, "send_call") /\ Push(t, "ewr_op_after")
  /\ SetLoc(t, [loc[t] EXCEPT !.opcalls = @ + 1])
  /\ UNCHANGED <<transportVars, client_connected, managerVars, ret,
                 cancel_req, running, role, listeners, peer_errors, frameVars, mgr, rctx, invocation, budget, hist>>

\* The except branch: a connection error leads to reconnect(), any other
\* exception is re-raised; a result is returned.
EWROpAfter(t) ==
  /\ running = t /\ pc[t] = "ewr_op_after"
  /\ IF ret[t].exc /\ ret[t] # Cancelled /\ IsConnectionError(ret[t].msg)
       THEN /\ Goto(t, "rc_call") /\ Push(t, "ewr_post")
            /\ SetLoc(t, [loc[t] EXCEPT !.recalls = @ + 1, !.err = ret[t].msg,
                                        !.opret = ret[t]])
            /\ UNCHANGED ret
       ELSE /\ Return(t, ret[t])
            /\ SetLoc(t, [loc[t] EXCEPT !.opret = ret[t]])
            /\ UNCHANGED stack
  /\ UNCHANGED <<transportVars, client_connected, managerVars, cancel_req,
                 running, role, listeners, peer_errors, frameVars, mgr, rctx, invocation, budget, hist>>

\* if connected: return await operation(...) else: raise Exception(...)
EWRPost(t) ==
  /\ running = t /\ pc[t] = "ewr_post"
  /\ IF ret[t] = Cancelled
       THEN Return(t, Cancelled) /\ UNCHANGED loc
       ELSE IF ret[t].val = "True"
         THEN /\ Goto(t, "send_call") /\ UNCHANGED ret
              /\ SetLoc(t, [loc[t] EXCEPT !.opcalls = @ + 1])
         ELSE Return(t, Error(OperationFailedMsg(loc[t].err))) /\ UNCHANGED loc
  /\ UNCHANGED <<transportVars, client_connected, managerVars, stack,
                 cancel_req, running, role, listeners, peer_errors, frameVars, mgr, rctx, invocation, budget, hist>>

(* ----------------------------- task glue ------------------------------- *)
Entry(o) ==
  CASE o = "send" -> "send_call"
    [] o = "ewr" -> "ewr_call"
    [] o = "connect" -> "mc_call"
    [] o = "reconnect" -> "rc_call"
    [] o = "disconnect" -> "md_call"
    [] o = "client_connect" -> "cc_connect"
    [] o = "client_disconnect" -> "cd_call"

\* A caller invokes an operation of the bridge.
StartOp(t, o, command) ==
  /\ running = 0 /\ pc[t] = "idle" /\ t \in Users
  /\ [op |-> o, cmd |-> command] \in role[t] /\ budget[t] > 0
  /\ budget' = [budget EXCEPT ![t] = @ - 1]
  /\ SetLoc(t, [NoLoc EXCEPT !.op = o, !.cmd = command])
  /\ ret' = [ret EXCEPT ![t] = NoRet]
  /\ Goto(t, Entry(o)) /\ Holding(t)
  /\ UNCHANGED <<transportVars, client_connected, managerVars, stack,
                 cancel_req, role, listeners, peer_errors, frameVars, mgr, rctx, invocation, hist>>

\* A coroutine returns (or raises) to the coroutine awaiting it.
Ret(t) ==
  /\ running = t /\ pc[t] = "ret" /\ stack[t] # <<>>
  /\ Goto(t, stack[t][Len(stack[t])])
  /\ stack' = [stack EXCEPT ![t] = SubSeq(@, 1, Len(@) - 1)]
  /\ UNCHANGED <<transportVars, client_connected, managerVars, ret, loc,
                 cancel_req, running, role, listeners, peer_errors, frameVars, mgr, rctx, invocation, budget, hist>>

\* The outermost coroutine of a task returns: the call is over and its frame
\* is gone.
Finish(t) ==
  /\ running = t /\ pc[t] = "ret" /\ stack[t] = <<>>
  /\ Goto(t, IF t \in Users THEN "idle" ELSE "done")
  /\ Released
  /\ SetLoc(t, NoLoc)
  /\ ret' = [ret EXCEPT ![t] = IF t \in Users THEN NoRet ELSE @]
  /\ hist' = [hist EXCEPT !.lost = @ \ {loc[t].req}, !.dpend[t] = {},
                          !.last = IF t \in Users
                                     THEN [@ EXCEPT ![t] = loc[t].op] ELSE @]
  /\ UNCHANGED <<transportVars, client_connected, managerVars, stack,
                 cancel_req, role, listeners, peer_errors, frameVars, mgr, rctx, invocation, budget>>

\* Positions at which a task is suspended inside reconnect()'s try block.
InReconnectBody == {"rc_sleep", "rc_listeners"}

\* A requested cancellation reaches the task at its suspension point as
\* CancelledError, which no `except Exception` catches.
DeliverCancel(t) ==
  /\ running = 0 /\ cancel_req[t]
  /\ pc[t] \notin {"none", "done", "idle"}
  /\ cancel_req' = [cancel_req EXCEPT ![t] = FALSE]
  /\ IF stack[t] = <<>> /\ (pc[t] = "new" \/ t \in LoopIds)
       THEN /\ pc' = [pc EXCEPT ![t] = "done"]
            /\ ret' = [ret EXCEPT ![t] = IF t \in LoopIds THEN NoRet
                                         ELSE Cancelled]
            /\ Released
            /\ UNCHANGED <<is_reconnecting, hist>>
       ELSE /\ Holding(t)
            /\ IF pc[t] \in InReconnectBody
                 THEN RCLeave(t, Cancelled)
                 ELSE Return(t, Cancelled) /\ UNCHANGED <<is_reconnecting, hist>>
  /\ UNCHANGED <<transportVars, client_connected, reconnect_task,
                 auto_reconnect, reconnect_attempts, stack, loc, role, listeners,
                 peer_errors, frameVars, mgr, rctx, invocation, budget>>

(* ----------------------------- histories ------------------------------- *)
NoHist == [lost |-> {}, late |-> {}, dpend |-> [t \in Tasks |-> {}],
           seqres |-> <<>>, joins |-> {}, hs |-> <<>>,
           last |-> [t \in Users |-> "none"]]

(* --------------------- transport and correlation ----------------------- *)
\* One client connecting and disconnecting, the others sending commands.
InitT ==
  /\ InitCommon
  /\ auto_reconnect = FALSE
  /\ reconnect_attempts = default_reconnect_attempts
  /\ faults = 0
  /\ listeners = <<"quiet">>
  /\ role = [t \in Users |->
               IF t = 1 THEN Calls("client_connect", {}) \cup Calls("client_disconnect", {})
               ELSE IF t = 2 THEN Calls("send", {"get_schema"})
               ELSE Calls("send", {"execute_code"})]
  /\ peer_errors = {<<"boom">>}
  /\ budget = [t \in Users |-> IF t = 1 THEN 2 ELSE 1]
  /\ hist = NoHist
  /\ mgr = [i \in Managers |-> NewManager]
  /\ rctx = NoContexts
  /\ invocation = NoInvocation

ConnectStep(t) ==
  \/ LLConnect(t) \/ LLLoop(t) \/ LLOpenOk(t) \/ LLHandshakeOk(t)
  \/ LLConnected(t) \/ CCConnect(t) \/ CCAfter(t)

ConnectFailStep(t) ==
  \/ LLOpenFail(t) \/ LLHandshakeBad(t) \/ LLHandshakeClosed(t)
  \/ LLSleepDone(t)

LoopStep(l) ==
  \/ RLStart(l) \/ RLPing0Done(l) \/ RLPing0Fail(l) \/ RLTop(l) \/ RLPingDone(l) \/ RLPingFail(l)
  \/ (\E m \in Frames : RLRecvOther(l, m)) \/ RLRecvNone(l) \/ RLRecvPing(l)
  \/ RLPongDone(l) \/ RLPongFail(l)
  \/ (\E e \in Envelopes : RLRecvEnvelope(l, e))
  \/ RLExcept(l) \/ RLEnd(l)

SendStep(t) ==
  \/ SendCall(t) \/ SendDrainDone(t) \/ SendDrainFail(t) \/ SendWake(t)
  \/ SendTimeout(t)

DisconnectStep(t) ==
  \/ DiscCall(t) \/ DiscCloseDone(t) \/ DiscCloseFail(t) \/ DiscClosed(t)
  \/ DiscListenersDone(t) \/ DiscHandle(t)

ClientDisconnectStep(t) == CDCall(t) \/ CDAfter(t)

GlueStep(t) ==
  \/ (\E r \in role[t] : StartOp(t, r.op, r.cmd))
  \/ Ret(t) \/ Finish(t)

NextT ==
  \/ \E t \in Users : ConnectStep(t)
  \/ \E l \in LoopIds : LoopStep(l)
  \/ \E t \in Users : SendStep(t)
  \/ \E t \in Users \cup LoopIds : DisconnectStep(t)
  \/ \E t \in Users : ClientDisconnectStep(t)
  \/ \E t \in Users : GlueStep(t)
  \/ \E l \in LoopIds : Ret(l) \/ DeliverCancel(l)
  \/ PeerStep

SpecT == InitT /\ [][NextT]_vars

\* The steps the event loop and its timers guarantee to a task: running code
\* up to the next await, waking on a done future or on a drained stream, the
\* wait_for deadline, the delivery of a cancellation, the 1-second poll of
\* the read loop, the completion of a local close (which also ends every
\* drain() of the closed stream) and of the listeners.  What the peer decides
\* (accepting a connection, answering, reading the stream) is not among them.
ProgramStep(t) ==
  \/ LLConnect(t) \/ LLLoop(t) \/ LLConnected(t) \/ CCConnect(t) \/ CCAfter(t)
  \/ SendCall(t) \/ SendDrainDone(t) \/ SendWake(t) \/ SendTimeout(t)
  \/ RLPing0Done(t) \/ RLPingDone(t) \/ RLPongDone(t)
  \/ DiscCall(t) \/ DiscClosed(t) \/ DiscHandle(t) \/ CDCall(t) \/ CDAfter(t)
  \/ DiscCloseDone(t) \/ DiscListenersDone(t)
  \/ (socks = {} /\ SendDrainFail(t))
  \/ Ret(t) \/ Finish(t)
  \/ RLStart(t) \/ RLTop(t) \/ RLExcept(t) \/ RLEnd(t)
  \/ RLRecvOther(t, "timeout") \/ DeliverCancel(t)

\* One caller instead of two.
InitTF ==
  /\ InitCommon
  /\ auto_reconnect = FALSE
  /\ reconnect_attempts = default_reconnect_attempts
  /\ faults = 0
  /\ listeners = <<"quiet">>
  /\ role = [t \in Users |->
               IF t = 1 THEN Calls("client_connect", {}) \cup Calls("client_disconnect", {})
               ELSE IF t = 2 THEN Calls("send", Commands)
               ELSE {}]
  /\ peer_errors = {<<"boom">>}
  /\ budget = [t \in Users |-> IF t = 1 THEN 2 ELSE 1]
  /\ hist = NoHist
  /\ mgr = [i \in Managers |-> NewManager]
  /\ rctx = NoContexts
  /\ invocation = NoInvocation

\* The event loop runs its ready callbacks in order: a step that is ready
\* whenever control returns to the loop is eventually taken (strong fairness,
\* because it is not enabled while another task executes).
SpecTFair ==
  InitTF /\ [][NextT]_vars /\ \A t \in Users \cup LoopIds : SF_vars(ProgramStep(t))

\* A call of task t is returning v to its caller outside the bridge.
Returning(t) == pc[t] = "ret" /\ stack[t] = <<>>

\* C1: every send_command call that obtains a response obtains the one whose
\* id is the id of the request it sent, whatever the order of arrival.
C1_OwnResponse ==
  \A t \in Users :
    /\ loc[t].resp # NoEnvelope => loc[t].resp.id = loc[t].req
    /\ (Returning(t) /\ loc[t].op = "send" /\ ~ret[t].exc)
         => /\ loc[t].resp.id = loc[t].req
            /\ loc[t].resp.status = "success"
            /\ ret[t] = Value(loc[t].resp.result)

\* Request 2 was answered and returned while request 1 was still waiting.
C1_Witness ==
  \E t \in Users :
    /\ Returning(t) /\ loc[t].req = 2 /\ loc[t].resp.id = 2
    /\ 1 \in Waiting

\* C2 (as claimed): a request that was pending when the connection was lost
\* without a local disconnect() ends with the 'disconnected' failure.
C2_LostRejected ==
  \A t \in Users :
    (Returning(t) /\ loc[t].req \in hist.lost) => ret[t] = Error(DisconnectedMsg)

\* C3 (as claimed): the requests pending at a disconnect() call are rejected
\* before the listeners are notified and before disconnect() returns.
C3_RejectedAtOnce ==
  \A t \in Users :
    (pc[t] = "disc_listeners" \/ (Returning(t) /\ loc[t].op = "client_disconnect"))
      => hist.dpend[t] \cap Waiting = {}

\* C9 (as claimed): every send_command call eventually completes.
C9_Completes ==
  \A t \in Users : (loc[t].op = "send") ~> (pc[t] = "idle")

\* C4: a call whose wait timed out raises the timeout error naming its
\* command, its entry is gone, and a later response with that id leaves the
\* future cancelled and the table without the entry.
C4_TimeoutFinal ==
  /\ \A i \in 1..MaxRequests :
       fut[i].state = "cancelled" => i \notin pending_requests
  /\ \A t \in Users :
       (loc[t].op = "send" /\ loc[t].req # 0 /\ fut[loc[t].req].state = "cancelled")
         => pc[t] = "ret" /\ ret[t] = Error(TimeoutMsg(loc[t].cmd))
  /\ \A i \in hist.late : fut[i].state = "cancelled"

\* A response arrived for a request that had timed out.
C4_Witness ==
  \E i \in hist.late : fut[i].state = "cancelled" /\ i \notin pending_requests

(* ----------------------------- supervisor ------------------------------ *)
ReconnectStep(t) ==
  \/ RCCall(t) \/ RCAttempt(t) \/ RCAfter(t) \/ RCListenersDone(t)

ExecuteStep(t) ==
  \/ EWRCall(t) \/ EWRPre(t) \/ EWROp(t) \/ EWROpAfter(t) \/ EWRPost(t)

\* The steps of the read loop and of send_command with a peer that keeps
\* reading, so that no drain() suspends.
LoopStepFlowing(l) ==
  \/ RLStart(l) \/ RLTop(l) \/ (\E m \in Frames : RLRecvOther(l, m))
  \/ RLRecvNone(l) \/ RLRecvPing(l)
  \/ (\E e \in Envelopes : RLRecvEnvelope(l, e))

SendStepFlowing(t) == SendCall(t) \/ SendWake(t) \/ SendTimeout(t)

\* One caller of execute_with_reconnect and one of the client's disconnect();
\* the peer may refuse one whole connect() of the transport.
InitE ==
  /\ InitCommon
  /\ auto_reconnect = FALSE
  /\ reconnect_attempts = 1
  /\ faults = MAX_ATTEMPTS
  /\ listeners = <<"quiet">>
  /\ role = [t \in Users |->
               IF t = 1 THEN Calls("ewr", {"get_schema"})
               ELSE IF t = 2 THEN Calls("client_disconnect", {})
               ELSE {}]
  /\ peer_errors = PeerErrorTexts
  /\ budget = [t \in Users |-> 1]
  /\ hist = NoHist
  /\ mgr = [i \in Managers |-> NewManager]
  /\ rctx = NoContexts
  /\ invocation = NoInvocation

NextE ==
  \/ \E t \in Users : ConnectStep(t) \/ ConnectFailStep(t)
  \/ \E l \in LoopIds : LoopStepFlowing(l)
  \/ \E t \in Users : SendStepFlowing(t)
  \/ \E t \in Users : DisconnectStep(t) \/ ClientDisconnectStep(t)
  \/ \E t \in Users : ReconnectStep(t) \/ ExecuteStep(t)
  \/ \E t \in Users : GlueStep(t)
  \/ \E l \in LoopIds : DeliverCancel(l)

SpecE == InitE /\ [][NextE]_vars

\* Two callers of reconnect() or connect() on a fresh supervisor.
InitR ==
  /\ InitCommon
  /\ auto_reconnect = FALSE
  /\ reconnect_attempts = 1
  /\ faults = 0
  /\ listeners = <<"quiet">>
  /\ role = [t \in Users |->
               IF t = 1 THEN Calls("reconnect", {})
               ELSE IF t = 2 THEN Calls("reconnect", {}) \cup Calls("connect", {})
               ELSE {}]
  /\ peer_errors = {<<"boom">>}
  /\ budget = [t \in Users |-> 1]
  /\ hist = NoHist
  /\ mgr = [i \in Managers |-> NewManager]
  /\ rctx = NoContexts
  /\ invocation = NoInvocation

ManagerConnectStep(t) == MCCall(t) \/ MCAfter(t) \/ MCListenersDone(t)

NextR ==
  \/ \E t \in Users : ConnectStep(t)
  \/ \E l \in LoopIds : LoopStep(l)
  \/ \E t \in LoopIds : DisconnectStep(t)
  \/ \E t \in Users : ReconnectStep(t) \/ ManagerConnectStep(t)
  \/ \E t \in Users : GlueStep(t)
  \/ \E l \in LoopIds : Ret(l) \/ DeliverCancel(l)
  \/ PeerStep

SpecR == InitR /\ [][NextR]_vars

\* A disconnect that starts the automatic reconnect always finds a free task.
AutoIdsSuffice ==
  \A t \in Tasks :
    (pc[t] = "disc_handle" /\ auto_reconnect /\ ~is_reconnecting)
      => \E a \in AutoIds : pc[a] = "none"

\* C5 (as claimed): at most one attempt sequence runs at a time, and every
\* reconnect() call that found a reconnect in progress returned the outcome of
\* that sequence.
C5_Coalesced ==
  /\ Cardinality({k \in 1..Len(hist.seqres) : hist.seqres[k] = "running"}) <= 1
  /\ \A j \in hist.joins :
       (j.seq # 0 /\ hist.seqres[j.seq] # "running") => j.val = hist.seqres[j.seq]

\* The failure text indicates 'not connected'.
IndicatesNotConnected(msg) == Contains(msg, <<"Not", "connected">>)

\* C6: one execute_with_reconnect call invokes the operation at most twice
\* and reconnect() at most once after a failure; a failure that is not a
\* connection error is returned unchanged after a single invocation; after a
\* connection error there is one reconnect() and then either one retry or the
\* "Operation failed and reconnection failed" error.
C6_SingleRetry ==
  \A t \in Users :
    loc[t].op = "ewr" =>
      /\ loc[t].opcalls <= 2 /\ loc[t].recalls <= 1
      /\ loc[t].opcalls = 2 => loc[t].recalls = 1
      /\ loc[t].recalls = 1 =>
           loc[t].opret.exc /\ IndicatesNotConnected(loc[t].opret.msg)
      /\ (Returning(t) /\ loc[t].opcalls = 1 /\ loc[t].recalls = 0
             /\ loc[t].opret # NoRet)
           => ret[t] = loc[t].opret
      /\ (Returning(t) /\ loc[t].recalls = 1 /\ loc[t].opcalls = 1)
           => ret[t] \in {Cancelled, Error(OperationFailedMsg(loc[t].opret.msg))}

\* A call retried the operation after a connection error and a reconnect.
C6_Witness ==
  \E t \in Users :
    Returning(t) /\ loc[t].op = "ewr" /\ loc[t].opcalls = 2 /\ loc[t].recalls = 1

\* C8 (as claimed): at most one socket is open at any time.
C8_OneConnection == Cardinality(socks) <= 1

\* One caller of reconnect() on a fresh supervisor with the default settings;
\* the peer may refuse every attempt.
InitB ==
  /\ InitCommon
  /\ auto_reconnect = FALSE
  /\ reconnect_attempts = default_reconnect_attempts
  /\ faults = MAX_ATTEMPTS * default_reconnect_attempts
  /\ listeners = <<"quiet">>
  /\ role = [t \in Users |-> IF t = 1 THEN Calls("reconnect", {}) ELSE {}]
  /\ peer_errors = {<<"boom">>}
  /\ budget = [t \in Users |-> 1]
  /\ hist = NoHist
  /\ mgr = [i \in Managers |-> NewManager]
  /\ rctx = NoContexts
  /\ invocation = NoInvocation

NextB ==
  \/ \E t \in Users : ConnectStep(t) \/ ConnectFailStep(t)
  \/ \E t \in Users : ReconnectStep(t) \/ RCSleepDone(t)
  \/ \E l \in LoopIds : LoopStepFlowing(l)
  \/ \E t \in Users : GlueStep(t)

SpecB == InitB /\ [][NextB]_vars

\* 2, 4, 8, 16 seconds
Schedule == <<2, 4, 8, 16>>

\* C7: a reconnect() sequence makes at most reconnect_attempts attempts and
\* stops at the first success; the waits so far are the first ones of 2, 4, 8,
\* 16 seconds, one after every failed attempt but the last; when all attempts
\* failed it returns False with nothing connected and is_reconnecting cleared.
C7_Backoff ==
  \A t \in Users :
    (loc[t].op = "reconnect" /\ loc[t].seqno # 0) =>
      /\ loc[t].tries <= reconnect_attempts
      /\ Len(loc[t].delays) < reconnect_attempts
      /\ loc[t].delays = SubSeq(Schedule, 1, Len(loc[t].delays))
      /\ Returning(t) =>
           /\ Len(loc[t].delays) = loc[t].tries - 1
           /\ ~is_reconnecting
           /\ ret[t] \in {Value("True"), Value("False")}
           /\ ret[t] = Value("False") =>
                /\ loc[t].tries = reconnect_attempts
                /\ ~client_connected /\ ~connected

\* All five attempts failed after waits of 2, 4, 8 and 16 seconds.
C7_Witness ==
  \E t \in Users :
    /\ Returning(t) /\ loc[t].op = "reconnect" /\ ret[t] = Value("False")
    /\ loc[t].tries = 5 /\ loc[t].delays = <<2, 4, 8, 16>>

(* ------------------------------- framing ------------------------------- *)
\* A text is a sequence of runs [cp, n], code point cp repeated n times, with
\* different code points in adjacent runs.  A byte string is a sequence of
\* chunks [pat, n], the bytes pat repeated n times.
MaxRuns == 2

\* STX, ETX, '{', '}', and one code point for each longer UTF-8 form.
CodePoints == {2, 3, 123, 125, 233, 8364, 128512}
RunLengths == {1, 2, 256, 65536, 5242880, 10485759, 10485760}
Runs == [cp : CodePoints, n : RunLengths]

Texts ==
  {t \in UNION {[1..k -> Runs] : k \in 0..MaxRuns} :
     \A i \in 1..(Len(t) - 1) : t[i].cp # t[i + 1].cp}

None == [ok |-> FALSE, text |-> <<>>]
Message(text) == [ok |-> TRUE, text |-> text]

\* str.encode('utf-8') of one code point
Utf8(cp) ==
  IF cp < 128 THEN <<cp>>
  ELSE IF cp < 2048 THEN <<192 + (cp \div 64), 128 + (cp % 64)>>
  ELSE IF cp < 65536
    THEN <<224 + (cp \div 4096), 128 + ((cp \div 64) % 64), 128 + (cp % 64)>>
    ELSE <<240 + (cp \div 262144), 128 + ((cp \div 4096) % 64),
           128 + ((cp \div 64) % 64), 128 + (cp % 64)>>

\* message.encode('utf-8')
EncodeUtf8(text) ==
  [i \in 1..Len(text) |-> [pat |-> Utf8(text[i].cp), n |-> text[i].n]]

ChunkLen(c) == Len(c.pat) * c.n

\* len(message_bytes)
RECURSIVE ByteLen(_)
ByteLen(bytes) ==
  IF bytes = <<>> THEN 0 ELSE ChunkLen(Head(bytes)) + ByteLen(Tail(bytes))

\* Variant: the length in network byte order.
PackLengthBigEndian(n) ==
  <<(n \div 16777216) % 256, (n \div 65536) % 256, (n \div 256) % 256, n % 256>>

\* struct.pack("<I", len(message_bytes))
PackLength(n) ==
  <<n % 256, (n \div 256) % 256, (n \div 65536) % 256, (n \div 16777216) % 256>>

Byte(b) == [pat |-> <<b>>, n |-> 1]

\* The frame _send_frame writes: STX, length, message bytes, ETX.
SendFrame(text) ==
  <<Byte(START_MARKER), [pat |-> PackLength(ByteLen(EncodeUtf8(text))), n |-> 1]>>
    \o EncodeUtf8(text) \o <<Byte(END_MARKER)>>

\* The first k bytes of chunk c, and the rest of it, for 0 < k < ChunkLen(c).
ChunkTake(c, k) ==
  LET q == k \div Len(c.pat)
      r == k % Len(c.pat)
  IN (IF q > 0 THEN <<[pat |-> c.pat, n |-> q]>> ELSE <<>>)
       \o (IF r > 0 THEN <<[pat |-> SubSeq(c.pat, 1, r), n |-> 1]>> ELSE <<>>)

ChunkDrop(c, k) ==
  LET q == k \div Len(c.pat)
      r == k % Len(c.pat)
      rest == c.n - q - (IF r > 0 THEN 1 ELSE 0)
  IN (IF r > 0 THEN <<[pat |-> SubSeq(c.pat, r + 1, Len(c.pat)), n |-> 1]>>
               ELSE <<>>)
       \o (IF rest > 0 THEN <<[pat |-> c.pat, n |-> rest]>> ELSE <<>>)

\* reader.readexactly(k): the bytes read, and the stream after them.
RECURSIVE Take(_, _)
Take(bytes, k) ==
  IF k = 0 \/ bytes = <<>> THEN <<>>
  ELSE IF ChunkLen(Head(bytes)) <= k
    THEN <<Head(bytes)>> \o Take(Tail(bytes), k - ChunkLen(Head(bytes)))
    ELSE ChunkTake(Head(bytes), k)

RECURSIVE Drop(_, _)
Drop(bytes, k) ==
  IF k = 0 \/ bytes = <<>> THEN bytes
  ELSE IF ChunkLen(Head(bytes)) <= k
    THEN Drop(Tail(bytes), k - ChunkLen(Head(bytes)))
    ELSE ChunkDrop(Head(bytes), k) \o Tail(bytes)

\* The single bytes of a short byte string.
RECURSIVE Flatten(_)
Flatten(bytes) ==
  IF bytes = <<>> THEN <<>>
  ELSE IF Head(bytes).n = 1 THEN Head(bytes).pat \o Flatten(Tail(bytes))
  ELSE Head(bytes).pat
         \o Flatten(<<[pat |-> Head(bytes).pat, n |-> Head(bytes).n - 1]>>
                      \o Tail(bytes))

\* The STX scan of _receive_frame: one byte at a time, at most 1000 bytes.
\* Gives the stream after the STX, or found = FALSE (no STX among the first
\* 1000 bytes, or the stream ended).
SCAN_LIMIT == 1000

RECURSIVE ScanStart(_, _)
ScanStart(bytes, checked) ==
  IF bytes = <<>> \/ checked >= SCAN_LIMIT THEN [found |-> FALSE, rest |-> <<>>]
  ELSE LET c == Head(bytes)
           hits == {i \in 1..Len(c.pat) : c.pat[i] = START_MARKER}
       IN IF hits = {}
            THEN ScanStart(Tail(bytes), checked + ChunkLen(c))
            ELSE LET i == CHOOSE x \in hits : \A y \in hits : x <= y
                 IN IF checked + i <= SCAN_LIMIT
                      THEN [found |-> TRUE, rest |-> Drop(bytes, i)]
                      ELSE [found |-> FALSE, rest |-> <<>>]

\* The number of bytes of the UTF-8 form that starts with byte b, 0 when no
\* form starts with it.
Utf8Width(b) ==
  IF b < 128 THEN 1
  ELSE IF b >= 194 /\ b < 224 THEN 2
  ELSE IF b >= 224 /\ b < 240 THEN 3
  ELSE IF b >= 240 /\ b < 245 THEN 4
  ELSE 0

Continuation(b) == b >= 128 /\ b < 192

\* The code point of one complete UTF-8 form, -1 when it is not valid
\* (overlong forms, surrogates and values above 0x10FFFF included).
Utf8Value(u) ==
  IF Len(u) = 1 THEN u[1]
  ELSE IF \E i \in 2..Len(u) : ~Continuation(u[i]) THEN -1
  ELSE IF Len(u) = 2 THEN (u[1] - 192) * 64 + (u[2] - 128)
  ELSE IF Len(u) = 3
    THEN LET cp == (u[1] - 224) * 4096 + (u[2] - 128) * 64 + (u[3] - 128)
         IN IF cp < 2048 \/ (cp >= 55296 /\ cp < 57344) THEN -1 ELSE cp
    ELSE LET cp == (u[1] - 240) * 262144 + (u[2] - 128) * 4096
                     + (u[3] - 128) * 64 + (u[4] - 128)
         IN IF cp < 65536 \/ cp > 1114111 THEN -1 ELSE cp

\* Appends a run to a text, merging it with an equal last code point.
AddRun(text, cp, n) ==
  IF text # <<>> /\ text[Len(text)].cp = cp
    THEN [text EXCEPT ![Len(text)].n = @ + n]
    ELSE Append(text, [cp |-> cp, n |-> n])

\* message_bytes.decode('utf-8'): the text so far and the bytes left; None
\* when the bytes are not valid UTF-8.
RECURSIVE DecodeUtf8(_, _)
DecodeUtf8(bytes, text) ==
  IF bytes = <<>> THEN Message(text)
  ELSE LET c == Head(bytes)
           w == Utf8Width(c.pat[1])
       IN IF w = 0 \/ ByteLen(bytes) < w THEN None
          ELSE LET u == Flatten(Take(bytes, w))
                   cp == Utf8Value(u)
               IN IF cp < 0 THEN None
                  ELSE IF c.pat = u
                    THEN DecodeUtf8(Tail(bytes), AddRun(text, cp, c.n))
                    ELSE DecodeUtf8(Drop(bytes, w), AddRun(text, cp, 1))

\* json.loads succeeds on a text that ends with '}'.  Of the texts over
\* CodePoints only "{}" is such a JSON document.
JsonObject(text) == text = <<[cp |-> 123, n |-> 1], [cp |-> 125, n |-> 1]>>

\* The length check of _receive_frame on the four length bytes.  A length
\* with a non-zero top byte is at least 2^24, above the limit; the value is
\* formed from the lower three bytes only.
LengthOf(b) == b[1] + 256 * b[2] + 65536 * b[3]
LengthValid(b) ==
  b[4] = 0 /\ ~(LengthOf(b) <= 0 \/ LengthOf(b) > MAX_MESSAGE_LENGTH)

\* _receive_frame on a stream that holds `bytes` and then ends.
ReceiveFrame(bytes) ==
  LET scan == ScanStart(bytes, 0) IN
  IF ~scan.found \/ ByteLen(scan.rest) < 4 THEN None
  ELSE LET b == Flatten(Take(scan.rest, 4))
           body == Drop(scan.rest, 4)
       IN IF ~LengthValid(b) \/ ByteLen(body) < LengthOf(b) + 1 THEN None
          ELSE LET message_bytes == Take(body, LengthOf(b))
                   end_marker == Head(Drop(body, LengthOf(b))).pat[1]
                   decoded == DecodeUtf8(message_bytes, <<>>)
               IN IF end_marker = END_MARKER THEN decoded
                  ELSE IF end_marker = 125 /\ decoded.ok
                            /\ decoded.text[Len(decoded.text)].cp = 125
                            /\ JsonObject(decoded.text)
                    THEN decoded
                    ELSE None

programVars == <<connected, writer, receive_task, pending_requests, fut, socks,
                 nsock, faults, paused, nextId, client_connected,
                 is_reconnecting, reconnect_task, auto_reconnect,
                 reconnect_attempts, pc, stack, ret, loc, cancel_req, running,
                 role, listeners, peer_errors, budget, hist>>

\* _send_frame(message) on a connected transport.
FSend ==
  /\ f_pc = "ready" /\ connected /\ writer # 0
  /\ f_wire' = SendFrame(f_text)
  /\ f_pc' = "sent"
  /\ UNCHANGED <<programVars, mgr, rctx, invocation, f_text, f_msg, rx>>

\* _receive_frame() on the bytes that were written.
FReceive ==
  /\ f_pc \in {"sent", "peer_sent"} /\ connected /\ writer # 0
  /\ f_msg' = ReceiveFrame(f_wire)
  /\ f_pc' = "received"
  /\ UNCHANGED <<programVars, mgr, rctx, invocation, f_text, f_wire, rx>>

\* A connected transport and a message to send.
InitF ==
  /\ connected = TRUE /\ client_connected = TRUE
  /\ writer = 1 /\ socks = {1} /\ nsock = 1
  /\ receive_task = 11
  /\ pending_requests = {}
  /\ fut = [i \in 1..MaxRequests |-> NoFuture]
  /\ faults = 0 /\ paused = FALSE /\ nextId = 1
  /\ is_reconnecting = FALSE /\ reconnect_task = 0
  /\ auto_reconnect = FALSE
  /\ reconnect_attempts = default_reconnect_attempts
  /\ pc = [t \in Tasks |-> IF t \in Users THEN "idle"
                           ELSE IF t = 11 THEN "rl_read" ELSE "none"]
  /\ stack = [t \in Tasks |-> <<>>]
  /\ ret = [t \in Tasks |-> NoRet]
  /\ loc = [t \in Tasks |-> NoLoc]
  /\ cancel_req = [t \in Tasks |-> FALSE]
  /\ running = 0
  /\ listeners = <<"quiet">>
  /\ role = [t \in Users |-> {}]
  /\ peer_errors = {}
  /\ budget = [t \in Users |-> 0]
  /\ hist = NoHist
  /\ mgr = [i \in Managers |-> NewManager]
  /\ rctx = NoContexts
  /\ invocation = NoInvocation
  /\ f_text \in Texts
  /\ f_wire = <<>>
  /\ f_msg = None
  /\ f_pc = "ready"
  /\ rx = NoRx

NextF == FSend \/ FReceive

SpecF == InitF /\ [][NextF]_vars

\* C10: a text whose UTF-8 encoding has 1 to 10 MiB bytes comes back unchanged
\* from _receive_frame applied to the frame _send_frame wrote for it.
C10_RoundTrip ==
  (f_pc = "received" /\ ByteLen(EncodeUtf8(f_text)) >= 1
     /\ ByteLen(EncodeUtf8(f_text)) <= MAX_MESSAGE_LENGTH)
    => f_msg = Message(f_text)

\* A text of exactly 10 MiB with a multi-byte character made the round trip.
C10_Witness ==
  /\ f_pc = "received"
  /\ ByteLen(EncodeUtf8(f_text)) = MAX_MESSAGE_LENGTH
  /\ \E i \in 1..Len(f_text) : f_text[i].cp > 127
  /\ f_msg = Message(f_text)

(* ------------------------ frames from the peer ------------------------- *)
\* The byte the peer puts where the end marker belongs: ETX, '}', STX, NUL
\* and a letter.
EndBytes == {END_MARKER, 125, START_MARKER, 0, 65}

\* The peer writes a frame for f_text whose last byte is e; the transport
\* reads it with reader.readexactly.
FPeerSend(e) ==
  /\ f_pc = "ready" /\ connected /\ writer # 0
  /\ f_wire' = SubSeq(SendFrame(f_text), 1, Len(SendFrame(f_text)) - 1)
                  \o <<Byte(e)>>
  /\ f_pc' = "peer_sent"
  /\ UNCHANGED <<programVars, mgr, rctx, invocation, f_text, f_msg, rx>>

NextG == (\E e \in EndBytes : FPeerSend(e)) \/ FReceive

SpecG == InitF /\ [][NextG]_vars

\* The byte in the end-marker position of the frame on the wire.
EndByteOnWire == f_wire[Len(f_wire)].pat[1]

\* C11 (as claimed): a frame whose end-marker byte is not 0x03 never yields a
\* message; the decoder returns None for it.
C11_EndMarkerChecked ==
  (f_pc = "received" /\ EndByteOnWire # END_MARKER) => f_msg = None

(* ------------------------------ handshake ------------------------------ *)
\* One client that connects and disconnects; the peer may refuse the
\* connection or answer the handshake in any way.
InitH ==
  /\ InitCommon
  /\ auto_reconnect = FALSE
  /\ reconnect_attempts = default_reconnect_attempts
  /\ faults = 2
  /\ listeners = <<"quiet">>
  /\ role = [t \in Users |->
               IF t = 1 THEN Calls("client_connect", {})
                               \cup Calls("client_disconnect", {})
               ELSE {}]
  /\ peer_errors = {}
  /\ budget = [t \in Users |-> IF t = 1 THEN 3 ELSE 0]
  /\ hist = NoHist
  /\ mgr = [i \in Managers |-> NewManager]
  /\ rctx = NoContexts
  /\ invocation = NoInvocation

NextH ==
  \/ \E t \in Users : ConnectStep(t) \/ ConnectFailStep(t)
  \/ \E l \in LoopIds : LoopStep(l)
  \/ \E t \in Users \cup LoopIds : DisconnectStep(t)
  \/ \E t \in Users : ClientDisconnectStep(t)
  \/ \E t \in Users : GlueStep(t)
  \/ \E l \in LoopIds : Ret(l) \/ DeliverCancel(l)
  \/ PeerStep

SpecH == InitH /\ [][NextH]_vars

\* After a failed attempt of a single connect() no socket is open, the
\* transport has no receive task and is not connected.
FailedAttemptClean ==
  \A t \in Users :
    (pc[t] \in {"ll_loop", "ll_sleep"} /\ loc[t].attempts > 0)
      => socks = {} /\ ~connected /\ receive_task = 0

\* C12 (as claimed): the transport is connected only on a handshake response
\* that is exactly the expected token.
C12_HandshakeExact ==
  (connected \/ \E t \in Users : pc[t] = "ll_hs_ok")
    => hist.hs = HANDSHAKE_RESPONSE

(* ------------------------------ keep-alive ----------------------------- *)
\* WebSocketClient._receive_messages: the first run of the task.  There is no
\* initial PING.
WSStart(l) ==
  /\ Suspended(l) /\ pc[l] = "new"
  /\ IF ~connected
       THEN LoopEnds(l)
       ELSE Goto(l, "rl_top") /\ Holding(l) /\ UNCHANGED ret
  /\ UNCHANGED <<transportVars, client_connected, managerVars, stack, loc,
                 cancel_req, role, listeners, peer_errors, frameVars, mgr, rctx, invocation, budget, hist>>

\* WebSocketClient._receive_messages takes a PING frame: only PONG is
\* special-cased, so json.loads("PING") raises JSONDecodeError, which is
\* logged; nothing is written.
WSRecvPing(l) ==
  /\ Suspended(l) /\ pc[l] = "rl_read"
  /\ Goto(l, "rl_top") /\ Holding(l)
  /\ Received(l, "PING", "none")
  /\ UNCHANGED <<transportVars, client_connected, managerVars, stack, ret,
                 cancel_req, role, listeners, peer_errors, frameVars, mgr, rctx, invocation, budget, hist>>

WSLoopStep(l) ==
  \/ WSStart(l) \/ RLTop(l) \/ RLPingDone(l) \/ RLPingFail(l)
  \/ (\E m \in Frames : RLRecvOther(l, m)) \/ RLRecvNone(l) \/ WSRecvPing(l)
  \/ (\E e \in Envelopes : RLRecvEnvelope(l, e))

\* A connected WebSocketClient whose receive task was just created, one
\* caller of send_command and one of disconnect.
InitW ==
  /\ connected = TRUE /\ client_connected = TRUE
  /\ writer = 1 /\ socks = {1} /\ nsock = 1
  /\ receive_task = 11
  /\ pending_requests = {}
  /\ fut = [i \in 1..MaxRequests |-> NoFuture]
  /\ faults = 0 /\ paused = FALSE /\ nextId = 1
  /\ is_reconnecting = FALSE /\ reconnect_task = 0
  /\ auto_reconnect = FALSE
  /\ reconnect_attempts = default_reconnect_attempts
  /\ pc = [t \in Tasks |-> IF t \in Users THEN "idle"
                           ELSE IF t = 11 THEN "new" ELSE "none"]
  /\ stack = [t \in Tasks |-> <<>>]
  /\ ret = [t \in Tasks |-> NoRet]
  /\ loc = [t \in Tasks |-> NoLoc]
  /\ cancel_req = [t \in Tasks |-> FALSE]
  /\ running = 0
  /\ listeners = <<"quiet">>
  /\ role = [t \in Users |->
               IF t = 1 THEN Calls("client_disconnect", {})
               ELSE IF t = 2 THEN Calls("send", {"get_schema"})
               ELSE {}]
  /\ peer_errors = {<<"boom">>}
  /\ budget = [t \in Users |-> 1]
  /\ hist = NoHist
  /\ mgr = [i \in Managers |-> NewManager]
  /\ rctx = NoContexts
  /\ invocation = NoInvocation
  /\ f_text = <<>> /\ f_wire = <<>> /\ f_msg = None /\ f_pc = "off"
  /\ rx = NoRx

NextW ==
  \/ \E l \in LoopIds : WSLoopStep(l)
  \/ \E t \in Users : SendStep(t)
  \/ \E t \in Users : DisconnectStep(t)
  \/ \E t \in Users : ClientDisconnectStep(t)
  \/ \E t \in Users : GlueStep(t)
  \/ \E l \in LoopIds : DeliverCancel(l)
  \/ PeerStep

SpecW == InitW /\ [][NextW]_vars

\* C13 (as claimed): a read loop that takes a PING from the stream of a
\* usable connection writes a PONG; one that takes a PONG writes nothing,
\* notifies no 'message' listener and leaves the pending requests and their
\* futures as they are.
C13_KeepAlive ==
  [][\A l \in LoopIds :
       (pc[l] = "rl_read" /\ pc'[l] # "rl_read") =>
         /\ (loc'[l].message = "PING" /\ connected /\ writer # 0)
              => loc'[l].sent = "PONG"
         /\ loc'[l].message = "PONG"
              => /\ loc'[l].sent = "none" /\ ~loc'[l].notified
                 /\ UNCHANGED <<pending_requests, fut>>]_vars

(* ------------------------------ disconnect ----------------------------- *)
ManagerDisconnectStep(t) == MDCall(t) \/ MDAfter(t) \/ MDListenersDone(t)

\* One caller that connects and disconnects through the manager or the
\* client, three calls in any order, and one caller of send_command.
InitD ==
  /\ InitCommon
  /\ auto_reconnect = FALSE
  /\ reconnect_attempts = default_reconnect_attempts
  /\ faults = 0
  /\ listeners = <<"quiet">>
  /\ role = [t \in Users |->
               IF t = 1 THEN Calls("connect", {}) \cup Calls("disconnect", {})
                               \cup Calls("client_disconnect", {})
               ELSE IF t = 2 THEN Calls("send", {"get_schema"})
               ELSE {}]
  /\ peer_errors = {<<"boom">>}
  /\ budget = [t \in Users |-> IF t = 1 THEN 3 ELSE 1]
  /\ hist = NoHist
  /\ mgr = [i \in Managers |-> NewManager]
  /\ rctx = NoContexts
  /\ invocation = NoInvocation

NextD ==
  \/ \E t \in Users : ConnectStep(t) \/ ManagerConnectStep(t)
  \/ \E l \in LoopIds : LoopStep(l)
  \/ \E t \in Users : SendStep(t)
  \/ \E t \in Users \cup LoopIds : DisconnectStep(t)
  \/ \E t \in Users : ClientDisconnectStep(t) \/ ManagerDisconnectStep(t)
  \/ \E t \in Users : GlueStep(t)
  \/ \E l \in LoopIds : Ret(l) \/ DeliverCancel(l)
  \/ PeerStep

SpecD == InitD /\ [][NextD]_vars

DiscOps == {"disconnect", "client_disconnect"}

\* The fields of the transport, the client and the manager.
Data == <<connected, client_connected, writer, receive_task, pending_requests,
          fut, socks, managerVars, cancel_req>>

\* Positions at which 'disconnected' or disconnection listeners are called.
Notifying == {"disc_closed", "disc_listeners", "disc_handle", "md_listeners"}

\* C14: a step of a disconnect() call changes no field and reaches no
\* listener when the call found the transport (for the manager: the client)
\* not connected, and in every call that directly follows another
\* disconnect() of the same caller with no connection made in between.
C14_Idempotent ==
  [][\A t \in Users :
       (/\ loc[t].op \in DiscOps /\ pc'[t] # pc[t]
        /\ \/ hist.last[t] \in DiscOps
           \/ pc[t] = "disc_call" /\ ~connected
           \/ pc[t] = "md_call" /\ ~client_connected)
         => UNCHANGED Data /\ pc'[t] \notin Notifying]_vars

\* The second of two disconnect() calls in a row, after a connection had
\* been made, is returning.
C14_Witness ==
  \E t \in Users :
    /\ Returning(t) /\ loc[t].op \in DiscOps /\ hist.last[t] \in DiscOps
    /\ hist.hs # <<>>

(* --------------------- execute_with_reconnect: entry ------------------- *)
\* C15: when the reconnect() made on entry because the client was not
\* connected returned False, the call raises "Not connected to Unity and
\* reconnection failed" at once and the operation has not been invoked.
C15_FailFast ==
  \A t \in Users :
    (loc[t].op = "ewr" /\ loc[t].pre = "False")
      => /\ loc[t].opcalls = 0 /\ loc[t].recalls = 0
         /\ Returning(t) /\ ret[t] = Error(ReconnectFailedMsg)

\* A call whose reconnect() on entry failed after a refused connection is
\* returning.
C15_Witness ==
  \E t \in Users :
    /\ Returning(t) /\ loc[t].op = "ewr" /\ loc[t].pre = "False"
    /\ faults < MAX_ATTEMPTS

(* ------------------------------ listeners ------------------------------ *)
\* The manager is connected, reconnected and disconnected by one caller with
\* MaxListeners failing listeners registered for each transition; the peer
\* may close the connection.
InitL ==
  /\ InitCommon
  /\ auto_reconnect = FALSE
  /\ reconnect_attempts = default_reconnect_attempts
  /\ faults = 0
  /\ listeners = [i \in 1..MaxListeners |-> "failing"]
  /\ role = [t \in Users |->
               IF t = 1 THEN Calls("connect", {}) \cup Calls("reconnect", {})
                               \cup Calls("disconnect", {})
               ELSE {}]
  /\ peer_errors = {}
  /\ budget = [t \in Users |-> IF t = 1 THEN 3 ELSE 0]
  /\ hist = NoHist
  /\ mgr = [i \in Managers |-> NewManager]
  /\ rctx = NoContexts
  /\ invocation = NoInvocation

NextL ==
  \/ \E t \in Users : ConnectStep(t) \/ ManagerConnectStep(t)
  \/ \E t \in Users : ReconnectStep(t)
  \/ \E l \in LoopIds : LoopStepFlowing(l)
  \/ \E t \in Users \cup LoopIds : DisconnectStep(t)
  \/ \E t \in Users : ClientDisconnectStep(t) \/ ManagerDisconnectStep(t)
  \/ \E t \in Users : GlueStep(t)
  \/ \E l \in LoopIds : Ret(l) \/ DeliverCancel(l)

SpecL == InitL /\ [][NextL]_vars

\* C16: a notification whose for loop is over (li = 0: the task is not, and
\* was not cancelled, inside a listener) has invoked every registered listener,
\* whether or not some of them raised, and the call that triggered it ends
\* as it does without a failing listener: connect and reconnect return
\* True, disconnect returns nothing and raises nothing.
C16_ListenersIsolated ==
  \A t \in Tasks :
    (loc[t].invoked # {} /\ loc[t].li = 0) =>
      /\ loc[t].invoked = Listeners
      /\ (t \in Users /\ Returning(t)) =>
            /\ loc[t].op \in {"connect", "reconnect"} => ret[t] = Value("True")
            /\ loc[t].op \in DiscOps => ret[t] = Value("none")

C16_Witness ==
  \E t \in Users :
    /\ Returning(t) /\ loc[t].op = "connect" /\ loc[t].lraised
    /\ loc[t].invoked = Listeners /\ ret[t] = Value("True")

C16_WitnessDisconnect ==
  \E t \in Users :
    /\ Returning(t) /\ loc[t].op = "disconnect" /\ loc[t].lraised
    /\ loc[t].invoked = Listeners /\ ret[t] = Value("none")

(* -------------------------- DynamicToolManager -------------------------- *)
\* JSON values.  A text carries what json.loads makes of it; `Invalid` is a
\* text json.loads rejects; `Other` is a value that is neither a text, an
\* object nor an array (a number, null); `Absent` is a missing key.
Absent == [kind |-> "absent"]
Other == [kind |-> "other"]
Invalid == [kind |-> "invalid"]
List(items) == [kind |-> "list", items |-> items]
Text(parsed) == [kind |-> "str", json |-> parsed]
Dict(tools, resources, result, content) ==
  [kind |-> "dict", tools |-> tools, resources |-> resources,
   result |-> result, content |-> content]
Schema(tools, resources) == Dict(tools, resources, Absent, Absent)
ContentItem(type, text) == [kind |-> "item", type |-> type, text |-> text]
TextItem(parsed) == ContentItem("text", Text(parsed))

\* An entry of the 'tools' array; "none" is a missing key, "bad" an
\* inputSchema func_metadata cannot digest.
ToolSchema(name, description, inputSchema) ==
  [kind |-> "tool", name |-> name, description |-> description,
   inputSchema |-> inputSchema]
\* An entry of the 'resources' array; "bad" is a uri AnyUrl rejects.
ResourceSchema(name, uri, description) ==
  [kind |-> "resource", name |-> name, uri |-> uri,
   description |-> description]

In(key, d) == d[key] # Absent

\* The result of _process_schema: a schema, {} or an exception.
Found(d) == [out |-> "schema", schema |-> d]
Empty == [out |-> "empty"]
Raised == [out |-> "raised"]
NoneYet == [out |-> "next"]

\* Variant: the text items of a content array are not looked at.
ScanContentNever(content) == NoneYet

\* `for item in content: if item.get('type') == 'text': ... json.loads(text)
\* ... if isinstance(parsed, dict) and 'tools' in parsed: return parsed`.
RECURSIVE ScanItems(_, _)
ScanItems(items, i) ==
  IF i > Len(items) THEN NoneYet
  ELSE IF items[i].kind # "item" THEN Raised
  ELSE IF items[i].type # "text" THEN ScanItems(items, i + 1)
  ELSE IF items[i].text.kind \notin {"str", "absent"} THEN Raised
  ELSE IF /\ items[i].text.kind = "str"
          /\ items[i].text.json.kind = "dict"
          /\ In("tools", items[i].text.json)
    THEN Found(items[i].text.json)
    ELSE ScanItems(items, i + 1)

ScanContent(content) ==
  IF content.kind # "list" THEN Raised ELSE ScanItems(content.items, 1)

\* Case 2 of _process_schema: the 'result' wrapper.
InResult(result) ==
  IF result.kind # "dict" THEN NoneYet
  ELSE IF In("tools", result) /\ In("resources", result) THEN Found(result)
  ELSE IF In("content", result) THEN ScanContent(result.content)
  ELSE NoneYet

\* Cases 1 to 3 for a dict.
InDict(schema) ==
  IF In("tools", schema) \/ In("resources", schema) THEN Found(schema)
  ELSE LET r == IF In("result", schema) THEN InResult(schema.result)
                ELSE NoneYet IN
    IF r # NoneYet THEN r
    ELSE LET c == IF In("content", schema) THEN ScanContent(schema.content)
                  ELSE NoneYet IN
      IF c # NoneYet THEN c ELSE Empty

_process_schema(schema_result) ==
  IF schema_result.kind = "str"
    THEN IF schema_result.json = Invalid THEN Empty
         ELSE IF schema_result.json.kind = "dict"
           THEN InDict(schema_result.json) ELSE Empty
  ELSE IF schema_result.kind = "dict" THEN InDict(schema_result)
  ELSE Empty

\* Variant: a known name is registered again.
AlreadyRegisteredNever(name, registry) == FALSE

\* `if tool_name in self.registered_tools` / `if resource_name in
\* self.registered_resources`.
AlreadyRegistered(name, registry) == name \in DOMAIN registry

Falsy(x) == x \in {"none", ""}

\* _register_tool inside `try: ... except Exception: logger.error(...)`.
_register_tool(m, tool_schema) ==
  IF tool_schema.kind # "tool" THEN m
  ELSE IF Falsy(tool_schema.name) THEN m
  ELSE IF AlreadyRegistered(tool_schema.name, m.registered_tools) THEN m
  ELSE IF tool_schema.inputSchema = "bad" THEN m
  ELSE LET tool_name == tool_schema.name
           description == IF tool_schema.description = "none"
                            THEN "Unity tool: " \o tool_name
                            ELSE tool_schema.description
           mcp_tool == [description |-> description,
                        parameters |-> tool_schema.inputSchema,
                        fn |-> tool_schema]
           others == DOMAIN m.tools \ {tool_name}
           known == DOMAIN m.registered_tools \ {tool_name} IN
    [m EXCEPT
       !.tools = [n \in others \cup {tool_name} |->
                    IF n = tool_name THEN mcp_tool ELSE m.tools[n]],
       !.registered_tools = [n \in known \cup {tool_name} |->
                    IF n = tool_name THEN description
                    ELSE m.registered_tools[n]]]

\* _register_resource inside the same try/except; publication is
\* ResourceManager.add_resource, which keeps the resource a uri already has.
_register_resource(m, resource_schema) ==
  IF resource_schema.kind # "resource" THEN m
  ELSE IF Falsy(resource_schema.name) THEN m
  ELSE IF AlreadyRegistered(resource_schema.name, m.registered_resources)
    THEN m
  ELSE IF Falsy(resource_schema.uri) THEN m
  ELSE LET resource_name == resource_schema.name
           uri == resource_schema.uri
           description == IF resource_schema.description = "none"
                            THEN "Unity resource: " \o resource_name
                            ELSE resource_schema.description
           published == uri # "bad"
           entry == [uri |-> uri, description |-> description,
                     func |-> published]
           resource == [name |-> resource_name, description |-> description,
                        fn |-> resource_schema]
           known == DOMAIN m.registered_resources \ {resource_name} IN
    [m EXCEPT
       !.registered_resources = [n \in known \cup {resource_name} |->
                    IF n = resource_name THEN entry
                    ELSE m.registered_resources[n]],
       !.resources = IF published /\ uri \notin DOMAIN m.resources
                       THEN [u \in DOMAIN m.resources \cup {uri} |->
                               IF u = uri THEN resource ELSE m.resources[u]]
                       ELSE m.resources]

RECURSIVE RegisterTools(_, _, _)
RegisterTools(m, tools, i) ==
  IF i > Len(tools) THEN m
  ELSE RegisterTools(_register_tool(m, tools[i]), tools, i + 1)

RECURSIVE RegisterResources(_, _, _)
RegisterResources(m, resources, i) ==
  IF i > Len(resources) THEN m
  ELSE RegisterResources(_register_resource(m, resources[i]), resources, i + 1)

\* Variant: an exception leaves register_from_schema.
OnExceptionRaise(m) == [m EXCEPT !.ret = "raised"]

\* `except Exception as e: logger.error(...); return False`.
OnException(m) == [m EXCEPT !.ret = "False"]

\* register_from_schema after get_schema() ended with `outcome`: the
\* manager after the call, `ret` being what the call returned.
register_from_schema(m0, outcome) ==
  LET m == [m0 EXCEPT !.schema_result = outcome] IN
  IF outcome.kind = "exception" THEN OnException(m)
  ELSE LET processed_schema == _process_schema(outcome) IN
    IF processed_schema = Raised THEN OnException(m)
    ELSE IF processed_schema = Empty THEN [m EXCEPT !.ret = "False"]
    ELSE LET schema == processed_schema.schema IN
      IF ~In("tools", schema) \/ ~In("resources", schema)
        THEN [m EXCEPT !.ret = "False"]
      ELSE IF schema.tools.kind # "list" THEN OnException(m)
      ELSE LET mt == RegisterTools(m, schema.tools.items, 1) IN
        IF schema.resources.kind # "list" THEN OnException(mt)
        ELSE [RegisterResources(mt, schema.resources.items, 1)
                EXCEPT !.ret = "True"]

\* Schemas the peer may answer get_schema with.
ToolSchemas ==
  {ToolSchema("take_screenshot", "shot", "none"),
   ToolSchema("take_screenshot", "other shot", "schema"),
   ToolSchema("execute_code", "none", "schema"),
   ToolSchema("broken", "none", "bad"),
   ToolSchema("none", "nameless", "none")}
ResourceSchemas ==
  {ResourceSchema("unity_info", "unity://info", "info"),
   ResourceSchema("unity_info", "unity://logs/{max_logs}", "other info"),
   ResourceSchema("unity_logs", "unity://info", "none"),
   ResourceSchema("unity_object", "bad", "none"),
   ResourceSchema("unity_object", "none", "object")}
Arrays(items, n) == {List(q) : q \in UNION {[1..k -> items] : k \in 0..n}}
Size(array) == IF array.kind = "list" THEN Len(array.items) ELSE 0
SchemaContents ==
  {Schema(q[1], q[2]) :
     q \in {x \in (Arrays(ToolSchemas, 2) \cup {Absent, Other})
                    \X (Arrays(ResourceSchemas, 2) \cup {Absent, Other}) :
              Size(x[1]) + Size(x[2]) <= 2}}

\* A schema delivered in a wrapper shape.
Wrap(shape, schema) ==
  CASE shape = "direct" -> schema
    [] shape = "result" -> Dict(Absent, Absent, schema, Absent)
    [] shape = "content" ->
         Dict(Absent, Absent, Absent, List(<<TextItem(schema)>>))
    [] shape = "result_content" ->
         Dict(Absent, Absent,
              Dict(Absent, Absent, Absent, List(<<TextItem(schema)>>)),
              Absent)

QueryFailed == [kind |-> "exception"]

restVars == <<transportVars, client_connected, managerVars, pc, stack, ret,
              loc, cancel_req, running, role, listeners, peer_errors, hist,
              frameVars, rctx, invocation>>

\* One more call of register_from_schema by user 1 on the manager "any".
RegisterAny(outcome) ==
  /\ budget[1] > 0
  /\ budget' = [budget EXCEPT ![1] = @ - 1]
  /\ mgr' = [mgr EXCEPT !["any"] = register_from_schema(@, outcome)]
  /\ UNCHANGED restVars

\* The same schema is delivered to the four managers, each in its shape.
RegisterShapes(schema) ==
  /\ budget[1] > 0
  /\ budget' = [budget EXCEPT ![1] = @ - 1]
  /\ mgr' = [i \in Managers |->
               IF i \in Shapes
                 THEN register_from_schema(mgr[i], Wrap(i, schema))
                 ELSE mgr[i]]
  /\ UNCHANGED restVars

InitS ==
  /\ InitCommon
  /\ auto_reconnect = FALSE
  /\ reconnect_attempts = default_reconnect_attempts
  /\ faults = 0
  /\ listeners = <<"quiet">>
  /\ role = [t \in Users |-> {}]
  /\ peer_errors = {}
  /\ budget = [t \in Users |-> IF t = 1 THEN 2 ELSE 0]
  /\ hist = NoHist
  /\ mgr = [i \in Managers |-> NewManager]
  /\ rctx = NoContexts
  /\ invocation = NoInvocation

NextS4 == \E schema \in SchemaContents : RegisterShapes(schema)

SpecS4 == InitS /\ [][NextS4]_vars

ToolNames(m) == DOMAIN m.registered_tools
ResourceNames(m) == DOMAIN m.registered_resources

\* C17: the four managers, given the same schemas each in its own wrapper
\* shape, have registered the same tool names and the same resource names.
C17_ShapesAgree ==
  \A i, j \in Shapes :
    /\ ToolNames(mgr[i]) = ToolNames(mgr[j])
    /\ ResourceNames(mgr[i]) = ResourceNames(mgr[j])

C17_Witness ==
  /\ \A i \in Shapes :
       /\ mgr[i].ret = "True" /\ mgr[i].schema_result.kind = "dict"
       /\ "take_screenshot" \in ToolNames(mgr[i])
       /\ "unity_info" \in ResourceNames(mgr[i])
  /\ mgr["direct"].schema_result.tools # Absent
  /\ mgr["result"].schema_result.result # Absent
  /\ mgr["content"].schema_result.content # Absent
  /\ mgr["result_content"].schema_result.result.kind = "dict"

(* ------------------------- schema normalization ------------------------- *)
\* The candidates of a payload: an object with, without or with only one of
\* a tools array and a resources array.
CandidatesOf(tool, resource) ==
  {Schema(t, r) : t \in {Absent, List(<<tool>>)},
                  r \in {Absent, List(<<resource>>)}}
TopCandidates ==
  CandidatesOf(ToolSchema("take_screenshot", "shot", "none"),
               ResourceSchema("unity_info", "unity://info", "info"))
ResultCandidates ==
  CandidatesOf(ToolSchema("execute_code", "none", "schema"),
               ResourceSchema("unity_logs", "unity://logs/{max_logs}", "none"))
TextCandidate ==
  Schema(List(<<ToolSchema("get_logs", "logs", "none")>>),
         List(<<ResourceSchema("unity_object", "unity://object/{id}", "none")>>))
ContentItems ==
  {TextItem(TextCandidate), TextItem(Schema(TextCandidate.tools, Absent)),
   TextItem(Invalid), ContentItem("image", Absent)}
Contents ==
  {List(<<x>>) : x \in ContentItems}
    \cup {List(<<x, TextItem(TextCandidate)>>) : x \in ContentItems}
    \cup {List(<<>>), Other, List(<<Other>>),
          List(<<ContentItem("text", Other)>>)}
Results ==
  {Other} \cup {Dict(c.tools, c.resources, Absent, content) :
                   c \in ResultCandidates, content \in Contents \cup {Absent}}

\* What get_schema() may end with.
Payloads ==
  {QueryFailed, Other, List(<<>>), Text(Invalid), Text(Other),
   Text(TextCandidate)}
    \cup SchemaContents
    \cup {Dict(c.tools, c.resources, result, Absent) :
            c \in TopCandidates, result \in Results \cup {Absent}}
    \cup {Dict(c.tools, c.resources, result, content) :
            c \in TopCandidates,
            result \in {r \in Results \cup {Absent} :
                          r.kind = "dict" => r.content = Absent},
            content \in Contents}
    \cup {Dict(Absent, Absent, Dict(Absent, Absent, Absent, List(<<x>>)),
               List(<<y>>)) :
            x \in {TextItem(Invalid), TextItem(TextCandidate)},
            y \in {TextItem(Invalid), TextItem(Schema(TextCandidate.tools, Absent))}}

NextS == \E outcome \in Payloads : RegisterAny(outcome)

SpecS == InitS /\ [][NextS]_vars

HasBoth(d) ==
  d.kind = "dict" /\ d.tools.kind = "list" /\ d.resources.kind = "list"

\* C18: when the top level of the payload has only one of the two arrays and
\* its 'result' has both, the call succeeds with the tools and resources of
\* 'result'.
C18_PartialPassedOver ==
  LET m == mgr["any"]
      p == m.schema_result IN
    (/\ p.kind = "dict" /\ ~HasBoth(p)
     /\ (In("tools", p) \/ In("resources", p))
     /\ In("result", p) /\ HasBoth(p.result)) =>
      /\ m.ret = "True"
      /\ "execute_code" \in ToolNames(m)
      /\ "unity_logs" \in ResourceNames(m)

\* The same for a top level that has neither array: 'result' is used.
C18_ResultUsed ==
  LET m == mgr["any"]
      p == m.schema_result IN
    (/\ p.kind = "dict" /\ ~In("tools", p) /\ ~In("resources", p)
     /\ In("result", p) /\ HasBoth(p.result)) =>
      /\ m.ret = "True"
      /\ "execute_code" \in ToolNames(m)
      /\ "unity_logs" \in ResourceNames(m)

(* --------------------------- failed registration ------------------------ *)
\* The objects a payload offers as the schema: its top level, its 'result',
\* and what the text items of the two content arrays parse to.
ParsedItems(content) ==
  IF content.kind # "list" THEN {}
  ELSE {content.items[i].text.json : i \in
          {k \in 1..Len(content.items) :
             /\ content.items[k].kind = "item"
             /\ content.items[k].type = "text"
             /\ content.items[k].text.kind = "str"}}
Offered(p) ==
  {d \in {p} \cup {p.result} \cup ParsedItems(p.content)
       \cup (IF p.result.kind = "dict" THEN ParsedItems(p.result.content)
             ELSE {}) : d.kind = "dict"}
KnownShape(p) == \E d \in Offered(p) : In("tools", d) /\ In("resources", d)

\* The query failed, or the payload is unparsable text, not an object, or
\* an object of no known shape.
NothingToRegister(p) ==
  \/ p = QueryFailed
  \/ p.kind = "str" /\ (p.json.kind # "dict" \/ ~KnownShape(p.json))
  \/ p.kind \in {"other", "list"}
  \/ p.kind = "dict" /\ ~KnownShape(p)

Registries(m) ==
  <<m.registered_tools, m.registered_resources, m.tools, m.resources>>

C19_WitnessNoShape ==
  /\ mgr["any"].schema_result.kind = "dict" /\ mgr["any"].ret = "False"
  /\ ~KnownShape(mgr["any"].schema_result)
  /\ In("content", mgr["any"].schema_result)
  /\ ToolNames(mgr["any"]) # {} /\ ResourceNames(mgr["any"]) # {}

(* ----------------------------- re-registration -------------------------- *)
\* The resources published under a name.
PublishedAs(m, name) ==
  {m.resources[u] : u \in {x \in DOMAIN m.resources :
                             m.resources[x].name = name}}

\* The first entry of an array that carries the name and can be registered.
Registrable(entry, name) ==
  /\ entry.name = name
  /\ entry.kind = "tool" => entry.inputSchema # "bad"
  /\ entry.kind = "resource" => entry.uri # "none"
FirstNamed(items, name) ==
  items[CHOOSE i \in 1..Len(items) :
          /\ Registrable(items[i], name)
          /\ \A k \in 1..(i - 1) : ~Registrable(items[k], name)]

\* C20: a call of register_from_schema leaves every registered tool and
\* resource name with the descriptor and the published callable it had, and
\* a name that occurs twice in one schema is registered from its first
\* occurrence.
C20_FirstRegistrationStays ==
  [][LET m == mgr["any"]
         n == mgr'["any"]
         p == n.schema_result IN
       /\ \A name \in ToolNames(m) :
            /\ name \in ToolNames(n)
            /\ n.registered_tools[name] = m.registered_tools[name]
            /\ n.tools[name] = m.tools[name]
       /\ \A name \in ResourceNames(m) :
            /\ name \in ResourceNames(n)
            /\ n.registered_resources[name] = m.registered_resources[name]
            /\ PublishedAs(n, name) = PublishedAs(m, name)
       /\ (n # m /\ p.kind = "dict" /\ HasBoth(p)) =>
            /\ \A name \in ToolNames(n) \ ToolNames(m) :
                 n.tools[name].fn = FirstNamed(p.tools.items, name)
            /\ \A name \in ResourceNames(n) \ ResourceNames(m) :
                 n.registered_resources[name].uri =
                   FirstNamed(p.resources.items, name).uri]_vars

\* The last call offered take_screenshot and unity_info with details other
\* than the registered ones.
C20_Witness ==
  LET m == mgr["any"]
      p == m.schema_result IN
    /\ budget[1] = 0 /\ p.kind = "dict" /\ HasBoth(p) /\ m.ret = "True"
    /\ \E i \in 1..Len(p.tools.items) :
         /\ p.tools.items[i].name \in ToolNames(m)
         /\ m.tools[p.tools.items[i].name].fn # p.tools.items[i]
    /\ \E i \in 1..Len(p.resources.items) :
         /\ p.resources.items[i].name \in ResourceNames(m)
         /\ m.registered_resources[p.resources.items[i].name].uri
              # p.resources.items[i].uri
         /\ p.resources.items[i].uri \notin {"none", "bad"}

(* ------------------- a drop while a request is pending ------------------ *)
\* C29: when the operation run by execute_with_reconnect ended because its
\* pending request was rejected with 'Disconnected from server', the call
\* has made one reconnect().
C29_RetryOnDrop ==
  \A t \in Users :
    (loc[t].op = "ewr" /\ loc[t].opret = Error(DisconnectedMsg)) =>
      loc[t].recalls = 1

(* ------------------------ backoff of connect() -------------------------- *)
AttemptPcs == {"ll_open", "ll_hs", "ll_hs_closing"}

\* C30: an attempt of connect() that failed and is not the last is followed
\* by the backoff sleep: only after the last attempt does control go from
\* the attempt straight back to the head of the loop.
C30_BackoffAfterFailure ==
  [][\A t \in Users :
       (pc[t] \in AttemptPcs /\ pc'[t] = "ll_loop") =>
          loc[t].attempts = MAX_ATTEMPTS]_vars

\* The same for an attempt that failed in open_connection.
C30_BackoffAfterSocketError ==
  [][\A t \in Users :
       (pc[t] = "ll_open" /\ pc'[t] = "ll_loop") =>
          loc[t].attempts = MAX_ATTEMPTS]_vars

\* connect() never starts more than MAX_ATTEMPTS attempts.
C30_AtMostMaxAttempts == \A t \in Users : loc[t].attempts <= MAX_ATTEMPTS

(* ---------------------------- ResourceContext --------------------------- *)
\* The context of task t is t; 0 is None.
\* get_current_ctx() called by task t.
get_current_ctx(c, t) ==
  IF c.task_contexts[t] # 0 - 1 THEN c.task_contexts[t] ELSE c.thread_ctx

\* set_current_ctx(ctx) called by task t.
set_current_ctx(c, t, ctx) ==
  [c EXCEPT !.thread_ctx = ctx,
            !.task_contexts[t] =
               IF ctx = 0 /\ c.task_contexts[t] # 0 - 1 THEN 0 - 1 ELSE ctx]

\* ContextManager.__enter__ of `with ResourceContext.with_context(ctx):`
CtxEnter(t) ==
  /\ rctx.at[t] = "out" /\ budget[t] > 0
  /\ budget' = [budget EXCEPT ![t] = @ - 1]
  /\ rctx' = [set_current_ctx(rctx, t, t) EXCEPT
                !.at[t] = "in", !.prev_ctx[t] = get_current_ctx(rctx, t)]
  /\ UNCHANGED <<transportVars, client_connected, managerVars, pc, stack,
                 ret, loc, cancel_req, running, role, listeners, peer_errors,
                 hist, frameVars, mgr, invocation>>

\* ContextManager.__exit__, after the awaits inside the block.
CtxExit(t) ==
  /\ rctx.at[t] = "in"
  /\ rctx' = [set_current_ctx(rctx, t, rctx.prev_ctx[t]) EXCEPT
                !.at[t] = "out", !.prev_ctx[t] = 0]
  /\ UNCHANGED <<transportVars, client_connected, managerVars, pc, stack,
                 ret, loc, cancel_req, running, role, listeners, peer_errors,
                 hist, frameVars, mgr, invocation, budget>>

\* Tasks 1 and 2 run with_context blocks, up to three each; task 3 only reads.
InitC ==
  /\ InitCommon
  /\ auto_reconnect = FALSE
  /\ reconnect_attempts = default_reconnect_attempts
  /\ faults = 0
  /\ listeners = <<"quiet">>
  /\ role = [t \in Users |-> {}]
  /\ peer_errors = {}
  /\ budget = [t \in Users |-> IF t = 3 THEN 0 ELSE 3]
  /\ hist = NoHist
  /\ mgr = [i \in Managers |-> NewManager]
  /\ rctx = NoContexts
  /\ invocation = NoInvocation

NextC == \E t \in Users : CtxEnter(t) \/ CtxExit(t)

SpecC == InitC /\ [][NextC]_vars

\* Inside its block a task reads its own context.
OwnContextInside ==
  \A t \in Users : rctx.at[t] = "in" => get_current_ctx(rctx, t) = t

\* C28: inside its block every task reads its own context, and when no task
\* is inside a block the current context of every task is None.
C28_Isolated ==
  /\ \A t \in Users : rctx.at[t] = "in" => get_current_ctx(rctx, t) = t
  /\ (\A t \in Users : rctx.at[t] = "out") =>
        \A t \in Users : get_current_ctx(rctx, t) = 0

(* ------------------- invoking tools and resources ----------------------- *)
\* A parameter name is a sequence of lower-case words, capitalised words
\* and underscores: max_logs is <<max, _, logs>>, maxLogs is <<max, Logs>>.
Lo(w) == [w |-> w, cap |-> FALSE]
Up(w) == [w |-> w, cap |-> TRUE]
Underscore == [w |-> "_", cap |-> FALSE]
max_logs == <<Lo("max"), Underscore, Lo("logs")>>
maxLogs == <<Lo("max"), Up("logs")>>
property_name == <<Lo("property"), Underscore, Lo("name")>>
propertyName == <<Lo("property"), Up("name")>>
Keys == {max_logs, maxLogs, property_name, propertyName, <<Lo("x")>>,
         <<Lo("y")>>}
Values == {"v1", "v2"}

\* A dict is the sequence of its items in insertion order.
Item(k, v) == [k |-> k, v |-> v]
KeysOf(d) == {d[i].k : i \in 1..Len(d)}
Get(d, k) == (CHOOSE i \in 1..Len(d) : d[i].k = k)
\* d[k] = v
Put(d, k, v) ==
  IF k \in KeysOf(d) THEN [d EXCEPT ![Get(d, k)] = Item(k, v)]
  ELSE Append(d, Item(k, v))
\* d.update(e)
RECURSIVE Update(_, _, _)
Update(d, e, i) ==
  IF i > Len(e) THEN d ELSE Update(Put(d, e[i].k, e[i].v), e, i + 1)
MaxItems == 2
Dicts(keys, n) ==
  {d \in UNION {[1..m -> [k : keys, v : Values]] : m \in 0..n} :
     \A i, j \in 1..Len(d) : d[i].k = d[j].k => i = j}

\* Results the peer may put in a response, and the texts of its errors.
NoneValue == [kind |-> "none"]
Lower(w) == CASE w = "Required" -> "required"
              [] w = "Missing" -> "missing"
              [] w = "Not" -> "not"
              [] OTHER -> w
Lowered(text) == [i \in 1..Len(text) |-> Lower(text[i])]

\* What happens to the requests of one invocation: whether the client is
\* connected at the start, whether reconnect() succeeds, and how the peer
\* deals with a request it is sent.
Request(command, parameters) ==
  [command |-> command, parameters |-> parameters]
Answer(status, error, result) ==
  [kind |-> "answer", status |-> status, error |-> error, result |-> result]
TimesOut == [kind |-> "timeout"]
Drops == [kind |-> "dropped"]
Result(res, sent, reconnects) ==
  [res |-> res, sent |-> sent, reconnects |-> reconnects]
Returns(v) == [exc |-> "none", val |-> v, msg |-> <<>>]
Throws(type, m) == [exc |-> type, val |-> NoneValue, msg |-> m]

\* LowLevelTcpClient.send_command for a request the peer deals with as
\* `reply`; an error text that is not a string is formatted into the message.
TextOf(error) ==
  CASE error.kind = "str" -> error.text
    [] error.kind = "absent" -> <<"Unknown", "error">>
    [] OTHER -> <<"42">>
SendCommand(command, reply) ==
  CASE reply.kind = "timeout" -> Throws("Exception", TimeoutMsg(command))
    [] reply.kind = "dropped" -> Throws("Exception", DisconnectedMsg)
    [] OTHER ->
         IF reply.status = "error"
           THEN Throws("Exception",
                       CommandErrorMsg(command, TextOf(reply.error)))
           ELSE Returns(reply.result)

\* `if parameters: request["parameters"] = parameters`
Sent(command, parameters) ==
  Request(command, IF parameters.kind = "params" /\ parameters.d = <<>>
                     THEN Absent ELSE parameters)

\* execute_with_reconnect(operation) where operation is one send_command;
\* the peer deals with a retried request as with the first.
ExecuteWithReconnect(command, parameters, tr) ==
  IF ~tr.connected /\ ~tr.reconnects
    THEN Result(Throws("Exception", ReconnectFailedMsg), <<>>, 1)
  ELSE LET first == SendCommand(command, tr.reply)
           n == IF tr.connected THEN 0 ELSE 1
           request == Sent(command, parameters) IN
    IF first.exc # "none" /\ IsConnectionError(first.msg)
      THEN IF tr.reconnects
             THEN Result(first, <<request, request>>, n + 1)
             ELSE Result(Throws("Exception", OperationFailedMsg(first.msg)),
                         <<request>>, n + 1)
      ELSE Result(first, <<request>>, n)

\* A URI template is a sequence of words and of the symbols "/", "{", "}",
\* "%7B" and "%7D"; unity://logs/{max_logs} is
\* <<unity:, /, /, logs, /, {, max, _, logs, }>>.
Sym(c) == [w |-> c, cap |-> FALSE]
Literal(w) == <<Lo(w)>>
Placeholder(key) == <<Sym("{")>> \o key \o <<Sym("}")>>
Encoded(key) == <<Sym("%7B")>> \o key \o <<Sym("%7D")>>
RECURSIVE Path(_)
Path(parts) ==
  IF Len(parts) = 1 THEN parts[1]
  ELSE parts[1] \o <<Sym("/")>> \o Path(Tail(parts))
Uri(scheme, parts) == Path(<<Literal(scheme), <<>>>> \o parts)
Templates ==
  [unity_info |-> Uri("unity:", <<Literal("info")>>),
   unity_logs |-> Uri("unity:", <<Literal("logs"), Placeholder(max_logs)>>),
   a |-> Uri("ns:", <<Literal("a"), Placeholder(<<Lo("x")>>),
                      Placeholder(<<Lo("y")>>)>>),
   unity_object |->
     Uri("unity:", <<Literal("object"), Placeholder(propertyName)>>)]

\* uri.split('/')
RECURSIVE Split(_, _, _)
Split(uri, i, part) ==
  IF i > Len(uri) THEN <<part>>
  ELSE IF uri[i] = Sym("/") THEN <<part>> \o Split(uri, i + 1, <<>>)
  ELSE Split(uri, i + 1, Append(part, uri[i]))

\* `for part in parts: if part.startswith('{') and part.endswith('}'):
\*    param_name = part[1:-1]; parameters.append(param_name)`
RECURSIVE PartParameters(_)
PartParameters(parts) ==
  IF parts = <<>> THEN <<>>
  ELSE LET part == parts[1] IN
    (IF part # <<>> /\ part[1] = Sym("{") /\ part[Len(part)] = Sym("}")
       THEN <<SubSeq(part, 2, Len(part) - 1)>> ELSE <<>>)
      \o PartParameters(Tail(parts))
Parameters(uri) == PartParameters(Split(uri, 1, <<>>))

\* `for i, param_name in enumerate(parameters): if i < len(args): ...`
RECURSIVE Positional(_, _, _, _)
Positional(d, parameters, args, i) ==
  IF i > Len(parameters) \/ i > Len(args) THEN d
  ELSE Positional(Put(d, parameters[i], args[i]), parameters, args, i + 1)

\* Variant: no count of the arguments is made.
TooFewNever(parameters, param_dict) == FALSE

\* `if len(parameters) > 0 and len(param_dict) < len(parameters)`
TooFew(parameters, param_dict) ==
  Len(parameters) > 0 /\ Len(param_dict) < Len(parameters)

AccessResource(resource_name, param_dict) ==
  [kind |-> "access", resource_name |-> resource_name, d |-> param_dict]
ToolParams(params) == [kind |-> "params", d |-> params]

\* dynamic_resource_handler(ctx, *args, **kwargs) of the resource `name`.
dynamic_resource_handler(name, args, kwargs, tr) ==
  LET parameters == Parameters(Templates[name])
      param_dict == Update(Positional(<<>>, parameters, args, 1), kwargs, 1)
      r == ExecuteWithReconnect("access_resource",
                                AccessResource(name, param_dict), tr) IN
  IF TooFew(parameters, param_dict)
    THEN Result(Throws("TypeError", <<"Missing", "required", "parameters">>),
                <<>>, 0)
  ELSE IF r.res.exc # "none"
    THEN [r EXCEPT !.res = Throws("Exception",
                                  <<"Error", "accessing", name>> \o @.msg)]
  ELSE r

\* JSON values of results: strings of words, content items, the inner
\* 'result' object {isError?, content?} and the result object
\* {status?, error?, result?}; "absent" is a missing key.
Str(text) == [kind |-> "str", text |-> text]
Inner(isError, content) ==
  [kind |-> "dict", isError |-> isError, content |-> content]
Obj(status, error, result) ==
  [kind |-> "dict", status |-> status, error |-> error, result |-> result]
ErrorTexts ==
  {<<"boom">>,
   <<"Required", "parameter", "code">>,
   <<"Missing", "parameter", "code">>,
   <<"code", "not", "provided">>,
   <<"parameter", "required">>,
   <<"parameter", "code", "is", "required">>,
   <<"Not", "connected", "to", "editor">>}
Errors == {Str(t) : t \in ErrorTexts} \cup {Absent, Other}
TextItems ==
  {ContentItem("text", e) : e \in Errors} \cup {ContentItem("image", Absent)}
ResultContents ==
  {List(<<>>), Absent, Other, List(<<Other>>)}
    \cup {List(<<i>>) : i \in TextItems}
    \cup {List(<<ContentItem("image", Absent), i>>) : i \in TextItems}
Inners ==
  {Inner(e, c) : e \in {"absent", "true", "false"}, c \in ResultContents}
    \cup {Absent, NoneValue, Str(<<"2">>), List(<<>>)}
PeerResults ==
  {NoneValue, Str(<<"2">>), List(<<>>)}
    \cup {Obj(st, Absent, r) : st \in {"absent", "success"}, r \in Inners}
    \cup {Obj("error", e, r) :
            e \in Errors, r \in {Absent, Str(<<"2">>), Inner("true", Absent)}}
    \cup {Obj("error", Other,
              Inner("true", List(<<ContentItem("text",
                                     Str(<<"code", "not", "provided">>))>>)))}

\* How the peer may deal with a request.
Replies ==
  {Answer("success", Absent, r) : r \in PeerResults}
    \cup {Answer("error", e, NoneValue) : e \in Errors}
    \cup {TimesOut, Drops}
PlainReplies ==
  {Answer("success", Absent, r) : r \in {NoneValue, Str(<<"2">>)}}
    \cup {Answer("error", Str(<<"boom">>), NoneValue), TimesOut}
Transports(replies) ==
  [connected : BOOLEAN, reconnects : BOOLEAN, reply : replies]

MaxArgs == 3
ArgLists == UNION {[1..n -> Values] : n \in 0..MaxArgs}

otherVars == <<transportVars, client_connected, managerVars, pc, stack, ret,
               loc, cancel_req, running, role, listeners, peer_errors, hist,
               frameVars, mgr, rctx>>

(* --------------------------- DynamicToolInvoker ------------------------- *)
\* Variant: the fourth phrase is not looked for.
KeywordsThree ==
  {<<"required", "parameter">>, <<"missing", "parameter">>,
   <<"not", "provided">>}

\* `["required parameter", "missing parameter", "not provided",
\*   "parameter required"]`
Keywords ==
  {<<"required", "parameter">>, <<"missing", "parameter">>,
   <<"not", "provided">>, <<"parameter", "required">>}

\* `any(keyword in error_message.lower() for keyword in [...])`
MissingParameter(error_message) ==
  \E keyword \in Keywords : Contains(Lowered(error_message), keyword)

AttributeErrorMsg == <<"object", "has", "no", "attribute">>
NotIterableMsg == <<"object", "is", "not", "iterable">>
UnknownError == <<"Unknown", "error">>
MissingMsg(what, name) ==
  <<"Missing", "required", "parameter", "for", what, name>>

\* What the try block of invoke_tool and invoke_resource does with the
\* result of execute_with_reconnect: an error text it came to look at
\* (Check), the message of an exception raised on the way (Fails), or
\* nothing to look at (Passes).
Check(text) == [step |-> "check", msg |-> text]
Fails(m) == [step |-> "raised", msg |-> m]
Passes == [step |-> "pass", msg |-> <<>>]

\* `error_message = result.get("error", "Unknown error")`, `.lower()`
StatusError(result) ==
  IF result.status # "error" THEN Passes
  ELSE IF result.error.kind = "absent" THEN Check(UnknownError)
  ELSE IF result.error.kind = "str" THEN Check(result.error.text)
  ELSE Fails(AttributeErrorMsg)

\* `for item in content: if item.get("type") == "text": ...; break`
RECURSIVE FirstText(_, _)
FirstText(items, i) ==
  IF i > Len(items) THEN Check(UnknownError)
  ELSE IF items[i].kind # "item" THEN Fails(AttributeErrorMsg)
  ELSE IF items[i].type # "text" THEN FirstText(items, i + 1)
  ELSE IF items[i].text.kind = "absent" THEN Check(UnknownError)
  ELSE IF items[i].text.kind = "str" THEN Check(items[i].text.text)
  ELSE Fails(AttributeErrorMsg)

\* `result_obj = result.get("result", {})`,
\* `if result_obj.get("isError") is True`
ErrorContent(result) ==
  IF result.result.kind = "absent" THEN Passes
  ELSE IF result.result.kind # "dict" THEN Fails(AttributeErrorMsg)
  ELSE IF result.result.isError # "true" THEN Passes
  ELSE IF result.result.content.kind = "absent" THEN Check(UnknownError)
  ELSE IF result.result.content.kind # "list" THEN Fails(NotIterableMsg)
  ELSE FirstText(result.result.content.items, 1)

ErrorResult(what, name, error_message) ==
  Obj("absent", Absent,
      Inner("true", List(<<ContentItem("text",
               Str(<<"Error", "invoking", what, name>> \o error_message))>>)))

\* `except Exception as e:` of invoke_tool and invoke_resource.
Except(what, name, error_message) ==
  IF MissingParameter(error_message)
    THEN Throws("ValueError", MissingMsg(what, name) \o error_message)
    ELSE Returns(ErrorResult(what, name, error_message))

\* The body shared by invoke_tool and invoke_resource, from the result of
\* execute_with_reconnect on.
Inspect(what, name, got) ==
  IF got.exc # "none" THEN Except(what, name, got.msg)
  ELSE IF got.val.kind # "dict" THEN Returns(got.val)
  ELSE LET a == StatusError(got.val)
           b == ErrorContent(got.val) IN
    IF a.step = "raised" THEN Except(what, name, a.msg)
    ELSE IF a.step = "check" /\ MissingParameter(a.msg)
      THEN Except(what, name, MissingMsg(what, name) \o a.msg)
    ELSE IF b.step = "raised" THEN Except(what, name, b.msg)
    ELSE IF b.step = "check" /\ MissingParameter(b.msg)
      THEN Except(what, name, MissingMsg(what, name) \o b.msg)
    ELSE Returns(got.val)

\* part.capitalize()
Capitalize(part) ==
  [i \in 1..Len(part) |-> IF i = 1 THEN Up(part[i].w) ELSE Lo(part[i].w)]

\* `parts = key.split('_')`,
\* `parts[0] + ''.join(part.capitalize() for part in parts[1:])`:
\* the words up to the first underscore, then each later part capitalised.
RECURSIVE CamelKey(_, _, _)
CamelKey(key, i, first) ==
  IF i > Len(key) THEN <<>>
  ELSE IF key[i] = Underscore THEN CamelKey(key, i + 1, FALSE)
  ELSE LET j == CHOOSE j \in i..Len(key) :
                  /\ \A m \in i..j : key[m] # Underscore
                  /\ j = Len(key) \/ key[j + 1] = Underscore
           part == SubSeq(key, i, j) IN
    (IF first THEN part ELSE Capitalize(part)) \o CamelKey(key, j + 1, FALSE)

\* Variant: the keys are passed on as they are.
NormalizeNot(params, i) == params

RECURSIVE _normalize_resource_parameters(_, _)
_normalize_resource_parameters(params, i) ==
  IF i = 0 THEN <<>>
  ELSE LET normalized == _normalize_resource_parameters(params, i - 1)
           key == params[i].k IN
    IF \A m \in 1..Len(key) : key[m] # Underscore
      THEN Put(normalized, key, params[i].v)
      ELSE Put(normalized, CamelKey(key, 1, key[1] # Underscore),
               params[i].v)

invoke_tool(tool_name, params, tr) ==
  LET r == ExecuteWithReconnect(tool_name, ToolParams(params), tr) IN
  [res |-> Inspect("tool", tool_name, r.res), sent |-> r.sent,
   reconnects |-> r.reconnects, got |-> r.res]

invoke_resource(resource_name, params, tr) ==
  LET normalized_params == _normalize_resource_parameters(params, Len(params))
      r == ExecuteWithReconnect("access_resource",
             AccessResource(resource_name, normalized_params), tr) IN
  [res |-> Inspect("resource", resource_name, r.res), sent |-> r.sent,
   reconnects |-> r.reconnects, got |-> r.res]

InvokeTool(name, params, tr) ==
  /\ budget[1] > 0
  /\ budget' = [budget EXCEPT ![1] = @ - 1]
  /\ LET r == invoke_tool(name, params, tr) IN
       invocation' = [op |-> "invoke_tool", name |-> name, args |-> <<>>,
                      params |-> params, tr |-> tr, sent |-> r.sent,
                      reconnects |-> r.reconnects,
                      got |-> r.got,
                      out |-> r.res]
  /\ UNCHANGED otherVars

InvokeResource(name, params, tr) ==
  /\ budget[1] > 0
  /\ budget' = [budget EXCEPT ![1] = @ - 1]
  /\ LET r == invoke_resource(name, params, tr) IN
       invocation' = [op |-> "invoke_resource", name |-> name, args |-> <<>>,
                      params |-> params, tr |-> tr, sent |-> r.sent,
                      reconnects |-> r.reconnects,
                      got |-> r.got,
                      out |-> r.res]
  /\ UNCHANGED otherVars

\* The resource callable of `name` is called with args and kwargs by user 1.
ResourceCall(name, args, kwargs, tr) ==
  /\ budget[1] > 0
  /\ budget' = [budget EXCEPT ![1] = @ - 1]
  /\ LET r == dynamic_resource_handler(name, args, kwargs, tr) IN
       invocation' = [op |-> "resource", name |-> name, args |-> args,
                      params |-> kwargs, tr |-> tr, sent |-> r.sent,
                      reconnects |-> r.reconnects, got |-> Returns(NoneValue),
                      out |-> r.res]
  /\ UNCHANGED otherVars

(* -------------------------- invoke_dynamic_tool ------------------------- *)
\* `for tool in tools: if tool.get('name') == command_name: return True`;
\* an entry that is not an object raises, which has_command catches.
RECURSIVE ScanTools(_, _, _)
ScanTools(items, i, command_name) ==
  IF i > Len(items) THEN FALSE
  ELSE IF items[i].kind # "tool" THEN FALSE
  ELSE IF items[i].name = command_name THEN TRUE
  ELSE ScanTools(items, i + 1, command_name)

\* UnityTcpClient.has_command, from what get_schema() returned or raised.
has_command(command_name, schema) ==
  IF schema.exc # "none" THEN FALSE
  ELSE IF schema.val.kind # "dict" THEN FALSE
  ELSE IF schema.val = Dict(Absent, Absent, Absent, Absent) THEN FALSE
  ELSE IF schema.val.tools.kind # "list" THEN FALSE
  ELSE ScanTools(schema.val.tools.items, 1, command_name)

ErrorObject(message) == [kind |-> "dict", error |-> Str(message)]
NotConnectedPlease ==
  <<"Not", "connected", "to", "Unity", "Please", "check", "the", "Unity",
    "connection">>
DoesNotExist(tool_name) ==
  <<"Tool", tool_name, "does", "not", "exist", "in", "Unity", "schema">>

\* The classes of client: get_client() of unity_websocket_client returns a
\* UnityWebSocketClient, which has no has_command; UnityTcpClient has one.
Clients == {"UnityWebSocketClient", "UnityTcpClient"}

\* invoke_dynamic_tool(tool_name, parameters) on a client of class `client`;
\* schema_reply is how the peer deals with get_schema.
invoke_dynamic_tool(client, tool_name, parameters, tr, schema_reply) ==
  LET n == IF tr.connected THEN 0 ELSE 1
      query == Request("get_schema", Absent)
      call == Sent(tool_name, ToolParams(parameters))
      r == SendCommand(tool_name, tr.reply) IN
  IF ~tr.connected /\ ~tr.reconnects
    THEN Result(Returns(ErrorObject(NotConnectedPlease)), <<>>, n)
  ELSE IF client = "UnityWebSocketClient"
    THEN Result(Throws("AttributeError", AttributeErrorMsg), <<>>, n)
  ELSE IF ~has_command(tool_name, SendCommand("get_schema", schema_reply))
    THEN Result(Returns(ErrorObject(DoesNotExist(tool_name))), <<query>>, n)
  ELSE IF r.exc # "none"
    THEN Result(Returns(ErrorObject(<<"Error", "invoking", "tool",
                                      tool_name>> \o r.msg)),
                <<query, call>>, n)
  ELSE Result(r, <<query, call>>, n)

\* Schemas of the peer, the shapes it may deliver them in, and the ways the
\* query may end.
DeclaredSchemas ==
  {Schema(tools, List(<<>>)) :
     tools \in Arrays(ToolSchemas, 2) \cup {Absent, Other}}
Deliveries == {"ok", "timeout", "error"}
SchemaReply(delivery, shape, schema) ==
  CASE delivery = "ok" -> Answer("success", Absent, Wrap(shape, schema))
    [] delivery = "timeout" -> TimesOut
    [] delivery = "error" -> Answer("error", Str(<<"boom">>), NoneValue)

InvokeDynamicTool(client, name, params, tr, delivery, shape, schema) ==
  /\ budget[1] > 0
  /\ budget' = [budget EXCEPT ![1] = @ - 1]
  /\ LET r == invoke_dynamic_tool(client, name, params, tr,
                                  SchemaReply(delivery, shape, schema)) IN
       invocation' = [op |-> "invoke_dynamic_tool", name |-> name,
                      args |-> <<>>, params |-> params,
                      tr |-> [connected |-> tr.connected,
                              reconnects |-> tr.reconnects,
                              reply |-> tr.reply, client |-> client,
                              delivery |-> delivery, shape |-> shape,
                              schema |-> schema],
                      sent |-> r.sent, reconnects |-> r.reconnects,
                      got |-> Returns(NoneValue), out |-> r.res]
  /\ UNCHANGED otherVars

\* UnityTcpClient.get_schema(): one send_command("get_schema") on the
\* transport, which raises at once when it is not connected.
get_schema(up, schema_reply) ==
  IF ~up
    THEN Result(Throws("Exception", NotConnectedMsg), <<>>, 0)
    ELSE Result(SendCommand("get_schema", schema_reply),
                <<Request("get_schema", Absent)>>, 0)

\* register_from_schema() of the manager "any", called by user 1 while the
\* transport is connected or not and reconnect() would succeed or not.
RegisterFromSchema(up, reconnects, delivery, shape, schema) ==
  /\ budget[1] > 0
  /\ budget' = [budget EXCEPT ![1] = @ - 1]
  /\ LET r == get_schema(up, SchemaReply(delivery, shape, schema))
         outcome == IF r.res.exc # "none" THEN QueryFailed ELSE r.res.val IN
       /\ mgr' = [mgr EXCEPT !["any"] = register_from_schema(@, outcome)]
       /\ invocation' = [op |-> "register_from_schema", name |-> "none",
                         args |-> <<>>, params |-> <<>>,
                         tr |-> [connected |-> up,
                                 reconnects |-> reconnects,
                                 reply |-> SchemaReply(delivery, shape,
                                                       schema)],
                         sent |-> r.sent, reconnects |-> r.reconnects,
                         got |-> r.res, out |-> Returns(NoneValue)]
  /\ UNCHANGED <<transportVars, client_connected, managerVars, pc, stack, ret,
                 loc, cancel_req, running, role, listeners, peer_errors, hist,
                 frameVars, rctx>>

InitV ==
  /\ InitCommon
  /\ auto_reconnect = FALSE
  /\ reconnect_attempts = default_reconnect_attempts
  /\ faults = 0
  /\ listeners = <<"quiet">>
  /\ role = [t \in Users |-> {}]
  /\ peer_errors = {}
  /\ budget = [t \in Users |-> IF t = 1 THEN 1 ELSE 0]
  /\ hist = NoHist
  /\ mgr = [i \in Managers |-> NewManager]
  /\ rctx = NoContexts
  /\ invocation = NoInvocation

\* User 1 makes one invocation.
NextV ==
  \/ /\ budget[1] > 0
     /\ \E name \in DOMAIN Templates, args \in ArgLists,
           kwargs \in Dicts(Keys, 1), tr \in Transports(PlainReplies) :
          ResourceCall(name, args, kwargs, tr)
  \/ /\ budget[1] > 0
     /\ \E name \in {"execute_code"}, params \in Dicts({<<Lo("x")>>}, 1),
           tr \in Transports(Replies) :
          InvokeTool(name, params, tr)
  \/ /\ budget[1] > 0
     /\ \E name \in {"unity_logs"}, params \in Dicts(Keys, MaxItems),
           tr \in Transports(PlainReplies) :
          InvokeResource(name, params, tr)
  \/ /\ budget[1] > 0
     /\ \E client \in Clients, name \in {"take_screenshot", "missing_tool"},
           tr \in Transports(PlainReplies), delivery \in Deliveries,
           shape \in Shapes, schema \in DeclaredSchemas :
          InvokeDynamicTool(client, name, <<>>, tr, delivery, shape, schema)
  \/ /\ budget[1] > 0
     /\ \E up \in BOOLEAN, reconnects \in BOOLEAN,
           delivery \in Deliveries, shape \in Shapes,
           schema \in DeclaredSchemas :
          RegisterFromSchema(up, reconnects, delivery, shape, schema)

SpecV == InitV /\ [][NextV]_vars

\* The number of placeholders of the template of the invoked resource and
\* the number of arguments of the call.
Placeholders(name) ==
  Cardinality({i \in 1..Len(Templates[name]) : Templates[name][i] = Sym("{")})
Arguments == Len(invocation.args) + Len(invocation.params)
ArgumentCountError == invocation.out.exc = "TypeError"

\* C21: a resource callable called with as many arguments as its template
\* has placeholders goes on to access the resource, and called with fewer
\* or more it fails with the local argument-count error.
C21_ExactArgumentCount ==
  invocation.op = "resource" =>
    (ArgumentCountError <=> Arguments # Placeholders(invocation.name))

\* C22: a call a resource callable rejects for its argument count sends no
\* command and makes no reconnect.
C22_RejectionIsLocal ==
  (invocation.op = "resource"
     /\ Arguments < Placeholders(invocation.name)) =>
    /\ ArgumentCountError
    /\ invocation.sent = <<>>
    /\ invocation.reconnects = 0

C22_Witness ==
  /\ invocation.op = "resource"
  /\ invocation.name = "a"
  /\ Arguments = 1
  /\ ~invocation.tr.connected
  /\ ArgumentCountError

\* The snake_case names of the parameter universe and their camelCase forms.
Snake == {max_logs, property_name}
CamelOf(key) == IF key = max_logs THEN maxLogs ELSE propertyName
SentParameters == invocation.sent[1].parameters.d

\* C23: on every resource invocation path a parameter supplied under a
\* snake_case name is sent under the camelCase name with its value.
C23_SnakeToCamel ==
  (invocation.op \in {"resource", "invoke_resource"}
     /\ invocation.sent # <<>>) =>
    \A i \in 1..Len(invocation.params) :
      invocation.params[i].k \in Snake =>
        \E j \in 1..Len(SentParameters) :
          SentParameters[j] = Item(CamelOf(invocation.params[i].k),
                                   invocation.params[i].v)

\* invoke_resource alone converts, as long as the camelCase name is not
\* supplied as well.
InvokeResourceConverts ==
  (invocation.op = "invoke_resource" /\ invocation.sent # <<>>) =>
    \A i \in 1..Len(invocation.params) :
      (/\ invocation.params[i].k \in Snake
       /\ CamelOf(invocation.params[i].k) \notin KeysOf(invocation.params)) =>
        \E j \in 1..Len(SentParameters) :
          SentParameters[j] = Item(CamelOf(invocation.params[i].k),
                                   invocation.params[i].v)

Invoked == invocation.op \in {"invoke_tool", "invoke_resource"}
MissingParameterRaised == invocation.out.exc = "ValueError"
HasPhrase(text, phrases) ==
  \E p \in phrases : Contains(Lowered(text), p)
ThreePhrases ==
  {<<"required", "parameter">>, <<"missing", "parameter">>,
   <<"not", "provided">>}
FourPhrases == ThreePhrases \cup {<<"parameter", "required">>}

\* The error texts of the peer in what it answered to the invocation: the
\* error of an error response, the error of a result object with status
\* "error", and the first text item of the content of an inner result with
\* isError true.
TextItemsOf(content) ==
  IF content.kind # "list" THEN {}
  ELSE {i \in 1..Len(content.items) :
          /\ content.items[i].kind = "item"
          /\ content.items[i].type = "text"}
AnswerOf == invocation.tr.reply
ErrorTextsOfPeer ==
  IF invocation.sent = <<>> \/ AnswerOf.kind # "answer" THEN {}
  ELSE IF AnswerOf.status = "error"
    THEN {AnswerOf.error.text : x \in {1} \cap
            {n \in {1} : AnswerOf.error.kind = "str"}}
  ELSE IF AnswerOf.result.kind # "dict" THEN {}
  ELSE {AnswerOf.result.error.text : x \in
          {n \in {1} : /\ AnswerOf.result.status = "error"
                       /\ AnswerOf.result.error.kind = "str"}}
       \cup
       {AnswerOf.result.result.content.items[i].text.text : i \in
          {n \in TextItemsOf(IF /\ AnswerOf.result.result.kind = "dict"
                                /\ AnswerOf.result.result.isError = "true"
                               THEN AnswerOf.result.result.content
                               ELSE Absent) :
             /\ \A m \in TextItemsOf(AnswerOf.result.result.content) : n <= m
             /\ AnswerOf.result.result.content.items[n].text.kind = "str"}}
\* The members the invoker reads have the types it expects.
WellFormed ==
  (AnswerOf.kind = "answer" /\ AnswerOf.status # "error"
     /\ AnswerOf.result.kind = "dict") =>
    /\ AnswerOf.result.status = "error" => AnswerOf.result.error.kind # "other"
    /\ AnswerOf.result.result.kind \in {"absent", "dict"}
    /\ (AnswerOf.result.result.kind = "dict"
          /\ AnswerOf.result.result.content.kind = "list") =>
         \A i \in 1..Len(AnswerOf.result.result.content.items) :
           AnswerOf.result.result.content.items[i].kind = "item"

C24_WitnessContent ==
  /\ invocation.op = "invoke_tool"
  /\ AnswerOf.kind = "answer" /\ AnswerOf.status = "success"
  /\ AnswerOf.result.kind = "dict"
  /\ AnswerOf.result.result =
       Inner("true", List(<<ContentItem("image", Absent),
                            ContentItem("text",
                              Str(<<"Missing", "parameter", "code">>))>>))
  /\ MissingParameterRaised

\* C25: invoke_tool and invoke_resource never raise; every failure comes
\* back as a result.
C25_NeverRaises == Invoked => invocation.out.exc = "none"

\* Nothing but the missing-parameter condition is raised, and every other
\* failure is returned as an object with isError true.
OnlyMissingParameterRaised ==
  Invoked =>
    /\ invocation.out.exc \in {"none", "ValueError"}
    /\ (invocation.got.exc # "none" /\ invocation.out.exc = "none") =>
         /\ invocation.out.val.kind = "dict"
         /\ invocation.out.val.result.isError = "true"

\* The parameters a request carries; a request without the member carries
\* none.
ParametersOf(request) ==
  IF request.parameters = Absent THEN <<>> ELSE request.parameters.d

\* C27: on a connected client and a peer answering with status success,
\* invoke_tool(name, params) sends one request with command name and
\* parameters params and returns the result of the response as it is.
C27_ResultUnchanged ==
  (/\ invocation.op = "invoke_tool"
   /\ invocation.tr.connected
   /\ AnswerOf.kind = "answer"
   /\ AnswerOf.status = "success") =>
    /\ Len(invocation.sent) = 1
    /\ invocation.sent[1].command = invocation.name
    /\ ParametersOf(invocation.sent[1]) = invocation.params
    /\ invocation.out = Returns(AnswerOf.result)

\* A result that is not an object, or an object without members the
\* invoker reads, is returned as it is.
PlainResultUnchanged ==
  (/\ invocation.op = "invoke_tool"
   /\ invocation.sent # <<>>
   /\ AnswerOf.kind = "answer"
   /\ AnswerOf.status = "success"
   /\ \/ AnswerOf.result.kind # "dict"
      \/ /\ AnswerOf.result.status # "error"
         /\ AnswerOf.result.result.kind = "absent") =>
    invocation.out = Returns(AnswerOf.result)

\* The peer's schema declares the tool that was invoked.
Declared ==
  /\ invocation.tr.schema.tools.kind = "list"
  /\ \E i \in 1..Len(invocation.tr.schema.tools.items) :
       invocation.tr.schema.tools.items[i].name = invocation.name
RejectedAsUnknown ==
  invocation.out = Returns(ErrorObject(DoesNotExist(invocation.name)))
Reachable == invocation.tr.connected \/ invocation.tr.reconnects

\* C26: invoking a name the peer's schema does not declare returns the
\* error object saying that it does not exist, without an exception, and
\* a name the schema declares is never rejected as non-existent.
C26_UnknownRejected ==
  (invocation.op = "invoke_dynamic_tool" /\ Reachable) =>
    /\ invocation.out.exc = "none"
    /\ RejectedAsUnknown <=> ~Declared

\* With a client that has has_command, a schema delivered as it is and a
\* query that is answered, exactly the undeclared names are rejected.
DirectSchemaDecides ==
  (/\ invocation.op = "invoke_dynamic_tool" /\ Reachable
   /\ invocation.tr.client = "UnityTcpClient"
   /\ invocation.tr.delivery = "ok"
   /\ invocation.tr.shape = "direct") =>
    /\ invocation.out.exc = "none"
    /\ RejectedAsUnknown <=> ~Declared

\* The same with a client that has has_command, whatever the shape and the
\* fate of the query.
HasCommandDecides ==
  (/\ invocation.op = "invoke_dynamic_tool" /\ Reachable
   /\ invocation.tr.client = "UnityTcpClient") =>
    /\ invocation.out.exc = "none"
    /\ RejectedAsUnknown <=> ~Declared

\* C40: a name is in registered_resources only if its callable was
\* published to the resource manager.
C40_RecordedOnlyIfPublished ==
  \A name \in DOMAIN mgr["any"].registered_resources :
    mgr["any"].registered_resources[name].func

\* C31: register_from_schema called while not connected reconnects first,
\* and a 'not connected' failure of its query leads to one reconnect before
\* registration is given up.
C31_QueryThroughSupervisor ==
  (/\ invocation.op = "register_from_schema"
   /\ \/ ~invocation.tr.connected
      \/ /\ invocation.got.exc # "none"
         /\ Contains(invocation.got.msg, <<"Not", "connected">>)) =>
    invocation.reconnects >= 1

(* -------------------- parameters of a URI template ---------------------- *)
\* Parts a template may be made of: words, placeholders in braces and in
\* percent-encoded braces, and placeholders inside a longer part.
MaxParts == 3
TemplateParts ==
  {Literal("logs"), Placeholder(<<Lo("x")>>), Placeholder(max_logs),
   Encoded(<<Lo("x")>>), Literal("file") \o Placeholder(<<Lo("y")>>),
   Placeholder(<<Lo("x")>>) \o Literal("txt")}
UriTemplates ==
  {Uri("unity:", parts) :
     parts \in UNION {[1..n -> TemplateParts] : n \in 1..MaxParts}}

\* _register_resource of a resource `name` with the template uri, by user
\* 1: the entry it stores carries the parameters it derived.
RegisterTemplate(name, uri) ==
  /\ budget[1] > 0
  /\ budget' = [budget EXCEPT ![1] = @ - 1]
  /\ invocation' = [op |-> "register_resource", name |-> name,
                    args |-> <<>>, params |-> <<>>,
                    tr |-> NoInvocation.tr, sent |-> <<>>, reconnects |-> 0,
                    got |-> Returns(NoneValue), out |-> Returns(NoneValue),
                    uri |-> uri, uri_params |-> Parameters(uri)]
  /\ UNCHANGED otherVars

NextU ==
  /\ budget[1] > 0
  /\ \E uri \in UriTemplates : RegisterTemplate("unity_logs", uri)

SpecU == InitV /\ [][NextU]_vars

\* The placeholder names of a template in order of occurrence: what stands
\* between an opening brace and the next closing one, literal or
\* percent-encoded.
Openers == {Sym("{"), Sym("%7B")}
Closers == {Sym("}"), Sym("%7D")}
RECURSIVE PlaceholderNames(_, _)
PlaceholderNames(uri, i) ==
  IF i > Len(uri) THEN <<>>
  ELSE IF uri[i] \notin Openers THEN PlaceholderNames(uri, i + 1)
  ELSE LET ends == {j \in (i + 1)..Len(uri) : uri[j] \in Closers} IN
    IF ends = {} THEN <<>>
    ELSE LET j == CHOOSE j \in ends : \A m \in ends : j <= m IN
      <<SubSeq(uri, i + 1, j - 1)>> \o PlaceholderNames(uri, j + 1)

\* C32: the parameter list derived at registration is the list of the
\* placeholder names of the template in order, for {x} and for %7Bx%7D,
\* wherever they occur.
C32_ParametersInOrder ==
  invocation.op = "register_resource" =>
    invocation.uri_params = PlaceholderNames(invocation.uri, 1)

\* For templates whose placeholders are whole path segments in literal
\* braces the list is the list of their names in order.
WholeSegments(uri) ==
  \A i \in 1..Len(uri) :
    /\ uri[i] \notin {Sym("%7B"), Sym("%7D")}
    /\ uri[i] = Sym("{") => uri[i - 1] = Sym("/")
    /\ uri[i] = Sym("}") => i = Len(uri) \/ uri[i + 1] = Sym("/")
WholeSegmentParameters ==
  (invocation.op = "register_resource" /\ WholeSegments(invocation.uri)) =>
    invocation.uri_params = PlaceholderNames(invocation.uri, 1)

(* ------------------- frames that are not envelopes --------------------- *)
\* JSON objects the peer may send that are not response envelopes: the
\* status member is missing.  The id may be the id of a request.
Malformed ==
  [id : 0..(nextId - 1), status : {"none"}, result : {"none"}, error : {<<>>}]

\* json.loads(message) gives a dict, so the loop looks its id up like the id
\* of any response.
RLRecvMalformed(l, e) ==
  /\ e \in Malformed
  /\ RLRecvObject(l, e)

NextM ==
  \/ NextT
  \/ \E l \in LoopIds : \E e \in Malformed : RLRecvMalformed(l, e)

SpecM == InitT /\ [][NextM]_vars

\* The frame the read loop has just taken is not a response envelope.
Skipped(l) ==
  /\ pc[l] = "rl_read" /\ pc'[l] # "rl_read"
  /\ loc'[l].message \in {"notjson", "notdict"}

\* C33 (as claimed): a frame that is not valid JSON, or is JSON but not a
\* well-formed envelope, is skipped: the read loop goes on, the connection
\* stays up, and no request is resolved or rejected because of it, so a
\* future only ever holds a well-formed response.
C33_MalformedSkipped ==
  [][/\ \A l \in LoopIds :
          Skipped(l) => /\ pc'[l] = "rl_top"
                        /\ connected' = connected
                        /\ pending_requests' = pending_requests
                        /\ fut' = fut
     /\ \A i \in 1..MaxRequests :
          fut'[i].state = "result" => fut'[i].val.status \in {"success", "error"}]_vars

\* What holds: a frame that is not a JSON object is skipped, and so is an
\* object whose id is not the id of a pending request.
NonObjectsSkipped ==
  [][/\ \A l \in LoopIds :
          Skipped(l) => /\ pc'[l] = "rl_top"
                        /\ connected' = connected
                        /\ pending_requests' = pending_requests
                        /\ fut' = fut
     /\ \A i \in 1..MaxRequests :
          (fut'[i].state = "result" /\ fut[i].state # "result")
            => i \in pending_requests]_vars

(* ------------------ the read loop and the connection ------------------- *)
\* The receive task of the connection exists and has not ended.
LoopRunning == receive_task # 0 /\ pc[receive_task] \notin {"none", "done"}

\* A call of LowLevelTcpClient.disconnect() is between its connected check and
\* its return.
Disconnecting ==
  \E t \in Tasks :
    pc[t] \in {"disc_call", "disc_closing", "disc_closed", "disc_listeners",
               "disc_handle"}

\* C34 (as claimed): if the transport reports connected then its read loop
\* is running; once the loop has stopped, for whatever reason, and no
\* disconnect() is still at work, the transport is disconnected.
C34_ConnectedHasLoop == (connected /\ ~Disconnecting) => LoopRunning

(* ---------------------- a caller that is cancelled --------------------- *)
\* The task awaiting send_command is cancelled by its caller while the call
\* is suspended in drain() or in wait_for(future, 60.0): CancelledError is
\* raised at the await.  wait_for cancels the future it waits for.  Neither
\* `except asyncio.TimeoutError` nor `except Exception` catches it, so no
\* pop of the entry runs.
SendCancelled(t) ==
  /\ Suspended(t) /\ pc[t] \in {"send_drain", "send_wait"}
  /\ fut' = IF pc[t] = "send_wait" /\ fut[loc[t].req].state = "pending"
              THEN [fut EXCEPT ![loc[t].req].state = "cancelled"]
              ELSE fut
  /\ Return(t, Cancelled) /\ Holding(t)
  /\ UNCHANGED <<connected, writer, receive_task, pending_requests, socks,
                 nsock, faults, paused, nextId, client_connected, managerVars,
                 stack, loc, cancel_req, role, listeners, peer_errors,
                 frameVars, mgr, rctx, invocation, budget, hist>>

NextX ==
  \/ NextT
  \/ \E t \in Users : SendCancelled(t)

SpecX == InitT /\ [][NextX]_vars

\* The send_command call of request i is between its entry and its end.
InProgress(i) ==
  \E t \in Users :
    /\ loc[t].op = "send" /\ loc[t].req = i
    /\ pc[t] \in {"send_drain", "send_wait"}

\* C37 (as claimed): the pending-request table holds only ids of send_command
\* calls that are still in progress, however a call ended.
C37_OnlyInProgress == \A i \in pending_requests : InProgress(i)

(* ------------------- peer errors and the retry path -------------------- *)
\* The first invocation of the operation of t was answered by the peer with
\* an error response.
PeerErrorAnswered(t) ==
  /\ loc[t].op = "ewr"
  /\ \E e \in peer_errors :
       loc[t].opret = Error(CommandErrorMsg(loc[t].cmd, e))

\* C38 (as claimed): a command answered with an error response is sent only
\* once, whatever the text of the error: no reconnect, no second send, and
\* the peer's error is what the caller gets.
C38_PeerErrorSentOnce ==
  \A t \in Users :
    PeerErrorAnswered(t) =>
      /\ loc[t].recalls = 0
      /\ loc[t].opcalls = 1
      /\ Returning(t) => ret[t] = loc[t].opret

\* What holds: a peer error whose text does not contain "Not connected" is
\* surfaced after a single send.
OtherPeerErrorsSentOnce ==
  \A t \in Users :
    (PeerErrorAnswered(t) /\ ~IndicatesNotConnected(loc[t].opret.msg)) =>
      /\ loc[t].recalls = 0
      /\ loc[t].opcalls = 1
      /\ Returning(t) => ret[t] = loc[t].opret

(* ------------------ listeners: once for each transition ---------------- *)
\* The step of t starts a notification of the disconnection listeners: in
\* _handle_disconnect, called back by the transport's disconnect(), or at the
\* end of UnityConnectionManager.disconnect().
StartsNotification(t) ==
  /\ pc'[t] # pc[t]
  /\ \/ pc[t] = "disc_closed"
     \/ pc[t] = "md_after" /\ ret[t] # Cancelled

\* C36 (as claimed): for one transition from connected to disconnected every
\* disconnection listener is invoked exactly once: a listener that one
\* disconnect() call has already invoked is not invoked again by that call.
C36_ListenersOnce ==
  [][\A t \in Users : \A i \in Listeners :
       (loc[t].op = "disconnect" /\ i \in loc[t].invoked /\ StartsNotification(t))
         => i \notin loc'[t].invoked]_vars

\* What holds: for a drop noticed by the transport, and for a disconnect()
\* of the client, the listeners are notified once.
DropNotifiedOnce ==
  [][\A t \in Tasks : \A i \in Listeners :
       (loc[t].op # "disconnect" /\ i \in loc[t].invoked /\ StartsNotification(t))
         => i \notin loc'[t].invoked]_vars

(* ----------------- disconnect() and automatic reconnection ------------- *)
\* The supervisor as constructed by default (auto_reconnect=True), connected
\* and disconnected by one caller.
InitA ==
  /\ InitCommon
  /\ auto_reconnect = TRUE
  /\ reconnect_attempts = 1
  /\ faults = 0
  /\ listeners = <<"quiet">>
  /\ role = [t \in Users |->
               IF t = 1 THEN Calls("connect", {}) \cup Calls("disconnect", {})
               ELSE {}]
  /\ peer_errors = {}
  /\ budget = [t \in Users |-> IF t = 1 THEN 3 ELSE 0]
  /\ hist = NoHist
  /\ mgr = [i \in Managers |-> NewManager]
  /\ rctx = NoContexts
  /\ invocation = NoInvocation

AutoStep(a) ==
  \/ AutoStart(a) \/ AutoSleepDone(a) \/ ReconnectStep(a) \/ ConnectStep(a)
  \/ Ret(a) \/ Finish(a) \/ DeliverCancel(a)

NextA ==
  \/ \E t \in Users : ConnectStep(t) \/ ManagerConnectStep(t)
  \/ \E l \in LoopIds : LoopStepFlowing(l)
  \/ \E t \in Users : DisconnectStep(t)
  \/ \E t \in Users : ClientDisconnectStep(t) \/ ManagerDisconnectStep(t)
  \/ \E t \in Users : GlueStep(t)
  \/ \E l \in LoopIds : DeliverCancel(l)
  \/ \E a \in AutoIds : AutoStep(a)

SpecA == InitA /\ [][NextA]_vars

\* The last call that ended was the supervisor's disconnect() and no call
\* has been made since.
AfterDisconnect ==
  \A t \in Users :
    /\ pc[t] = "idle"
    /\ role[t] # {} => hist.last[t] = "disconnect"

\* A task is inside an attempt to open a connection.
Attempting == \E t \in Tasks : pc[t] \in AttemptPcs

\* C35 (as claimed): after an explicit disconnect() of the supervisor has
\* returned, nothing connects and no connection attempt is made until
\* connect(), reconnect() or execute_with_reconnect is called again.
C35_StaysDisconnected ==
  [][AfterDisconnect =>
       /\ ~(Attempting' /\ ~Attempting)
       /\ ~(connected' /\ ~connected)
       /\ ~(client_connected' /\ ~client_connected)]_vars

(* --------------------- frames that arrive in pieces -------------------- *)
\* Longest payload of a frame of the peer, in bytes.
MaxPayload == 2

\* n bytes b
RECURSIVE Repeat(_, _)
Repeat(b, n) == IF n = 0 THEN <<>> ELSE <<b>> \o Repeat(b, n - 1)

\* A valid frame as the peer writes it: STX, the length as 4 little-endian
\* bytes, the payload, ETX.
PeerFrame(payload) ==
  <<START_MARKER>> \o PackLength(Len(payload)) \o payload \o <<END_MARKER>>

\* The peer sends two frames, the first of letters A and the second of
\* letters B.
PeerStreams ==
  {<<Repeat(65, n), Repeat(66, m)>> : n \in 1..MaxPayload, m \in 1..MaxPayload}

\* A connected transport whose read loop is about to poll; the two frames are
\* on their way.
InitP ==
  /\ connected = TRUE /\ client_connected = TRUE
  /\ writer = 1 /\ socks = {1} /\ nsock = 1
  /\ receive_task = 11
  /\ pending_requests = {}
  /\ fut = [i \in 1..MaxRequests |-> NoFuture]
  /\ faults = 0 /\ paused = FALSE /\ nextId = 1
  /\ is_reconnecting = FALSE /\ reconnect_task = 0
  /\ auto_reconnect = FALSE
  /\ reconnect_attempts = default_reconnect_attempts
  /\ pc = [t \in Tasks |-> IF t \in Users THEN "idle"
                           ELSE IF t = 11 THEN "rl_read" ELSE "none"]
  /\ stack = [t \in Tasks |-> <<>>]
  /\ ret = [t \in Tasks |-> NoRet]
  /\ loc = [t \in Tasks |-> NoLoc]
  /\ cancel_req = [t \in Tasks |-> FALSE]
  /\ running = 0
  /\ listeners = <<"quiet">>
  /\ role = [t \in Users |-> {}]
  /\ peer_errors = {}
  /\ budget = [t \in Users |-> 0]
  /\ hist = NoHist
  /\ mgr = [i \in Managers |-> NewManager]
  /\ rctx = NoContexts
  /\ invocation = NoInvocation
  /\ f_text = <<>> /\ f_wire = <<>> /\ f_msg = None /\ f_pc = "off"
  /\ \E frames \in PeerStreams :
       rx = [NoRx EXCEPT !.sent = frames,
                         !.wire = PeerFrame(frames[1]) \o PeerFrame(frames[2])]

\* The next byte of the peer reaches the StreamReader's buffer.
RxArrive ==
  /\ rx.wire # <<>>
  /\ rx' = [rx EXCEPT !.buffer = Append(@, Head(rx.wire)), !.wire = Tail(@)]
  /\ UNCHANGED <<programVars, mgr, rctx, invocation, f_text, f_wire, f_msg, f_pc>>

\* `while self.connected:` ... wait_for(self._receive_frame(), timeout=1.0):
\* a call of _receive_frame starts with the scan for STX.
RxPoll ==
  /\ rx.at = "idle" /\ ~rx.ended /\ connected /\ writer # 0
  /\ rx' = [rx EXCEPT !.at = "stx", !.message_length = 0,
                      !.message_bytes = <<>>]
  /\ UNCHANGED <<programVars, mgr, rctx, invocation, f_text, f_wire, f_msg, f_pc>>

\* readexactly(1) of the scan returned a byte.  (The scan gives up after
\* 1000 bytes, more than the peer sends here.)
RxStart ==
  /\ rx.at = "stx" /\ rx.buffer # <<>>
  /\ rx' = [rx EXCEPT !.buffer = Tail(@),
                      !.at = IF Head(rx.buffer) = START_MARKER
                               THEN "len" ELSE "stx"]
  /\ UNCHANGED <<programVars, mgr, rctx, invocation, f_text, f_wire, f_msg, f_pc>>

\* readexactly(4) returned: the length check; an invalid length returns
\* None, on which the read loop breaks.
RxLength ==
  /\ rx.at = "len" /\ Len(rx.buffer) >= 4
  /\ LET b == SubSeq(rx.buffer, 1, 4) IN
       rx' = IF LengthValid(b)
               THEN [rx EXCEPT !.buffer = SubSeq(@, 5, Len(@)),
                               !.message_length = LengthOf(b), !.at = "data"]
               ELSE [rx EXCEPT !.buffer = SubSeq(@, 5, Len(@)),
                               !.at = "idle", !.ended = TRUE]
  /\ UNCHANGED <<programVars, mgr, rctx, invocation, f_text, f_wire, f_msg, f_pc>>

\* readexactly(message_length) returned.
RxData ==
  /\ rx.at = "data" /\ Len(rx.buffer) >= rx.message_length
  /\ rx' = [rx EXCEPT !.message_bytes = SubSeq(rx.buffer, 1, rx.message_length),
                      !.buffer = SubSeq(@, rx.message_length + 1, Len(@)),
                      !.at = "etx"]
  /\ UNCHANGED <<programVars, mgr, rctx, invocation, f_text, f_wire, f_msg, f_pc>>

\* The bytes of "{}", the one JSON object among the payloads.
EmptyObject == <<123, 125>>

\* readexactly(1) for the end marker returned: ETX, or '}' after a JSON
\* object, returns the message; any other byte returns None after read(10)
\* took what else was buffered.
RxEnd ==
  /\ rx.at = "etx" /\ rx.buffer # <<>>
  /\ LET end_marker == Head(rx.buffer) IN
       rx' = IF \/ end_marker = END_MARKER
                \/ end_marker = 125 /\ rx.message_bytes = EmptyObject
               THEN [rx EXCEPT !.buffer = Tail(@), !.at = "idle",
                               !.delivered = Append(@, rx.message_bytes)]
               ELSE [rx EXCEPT !.buffer = SubSeq(@, 12, Len(@)),
                               !.at = "idle", !.ended = TRUE]
  /\ UNCHANGED <<programVars, mgr, rctx, invocation, f_text, f_wire, f_msg, f_pc>>

\* The read _receive_frame is suspended in cannot complete with what is
\* buffered.
RxBlocked ==
  CASE rx.at \in {"stx", "etx"} -> rx.buffer = <<>>
    [] rx.at = "len" -> Len(rx.buffer) < 4
    [] rx.at = "data" -> Len(rx.buffer) < rx.message_length
    [] OTHER -> FALSE

\* Variant: the poll deadline only ends a call that has consumed nothing.
RxCancellableAtStart == rx.at = "stx"

\* wait_for cancels _receive_frame wherever it is suspended.
RxCancellable == rx.at \in {"stx", "len", "data", "etx"}

\* The 1-second deadline of wait_for passes while _receive_frame waits for
\* bytes: the call is cancelled, what it had consumed goes with its frame,
\* what is buffered stays, and the loop continues with a new call.
RxTimeout ==
  /\ RxCancellable /\ RxBlocked
  /\ rx' = [rx EXCEPT !.at = "idle", !.message_length = 0,
                      !.message_bytes = <<>>]
  /\ UNCHANGED <<programVars, mgr, rctx, invocation, f_text, f_wire, f_msg, f_pc>>

NextP ==
  \/ RxArrive \/ RxPoll \/ RxStart \/ RxLength \/ RxData \/ RxEnd
  \/ RxTimeout

SpecP == InitP /\ [][NextP]_vars

\* s is an initial part of t.
IsPrefix(s, t) == Len(s) <= Len(t) /\ s = SubSeq(t, 1, Len(s))

\* Every byte has arrived and has been read.
AllRead == rx.wire = <<>> /\ rx.buffer = <<>> /\ rx.at \in {"idle", "stx"}

\* C39 (as claimed): however the bytes of valid frames are spread over time,
\* each frame is delivered once and intact and in order, the frames after it
\* too, and the read loop does not stop.
C39_TimingIndependent ==
  /\ ~rx.ended
  /\ IsPrefix(rx.delivered, rx.sent)
  /\ AllRead => rx.delivered = rx.sent
====
